---- MODULE Spec2Model ----
(***************************************************************************)
(* A model of the virtual terminal engine of james4k/terminal: the screen  *)
(* buffer and grid primitives of the VT type, the escape-sequence state    *)
(* machine (parse, parseEsc, parseEscCSI, ...), the CSI accumulator and    *)
(* the STR accumulator.  Code points and bytes are integers, bit sets are  *)
(* integers with the source's bit values, slices are sequences (index i of *)
(* the source is index i+1 here).                                          *)
(***************************************************************************)
EXTENDS Integers, Sequences, FiniteSets, TLC

VARIABLES
    t,      \* the engine: the fields of VT and, in panic, whether it aborted
    last,   \* the operation performed last, with its input and the parser
            \* state and screen size it found
    fed,    \* the code points delivered since construction (recorded by the
            \* stream specifications only)
    mu,     \* VT.mu, the read-write lock: its writer and number of readers
    proc    \* the callers of the locking specifications: where each of
            \* them stands, and the locals of ReadFrom

vars == <<t, last, fed, mu, proc>>

\* ------------------------------------------------------------------------
\* Bounds of the model
\* ------------------------------------------------------------------------

\* largest number of columns / rows of a constructed or resized engine
MaxCols == 2

MaxRows == 2

\* largest number of cells of a grid: of the screen specification, of the
\* parser specification
MaxCells == 4

MaxParserCells == 2

\* cap on the CSI buffer length explored by the general specification
MaxCsiLen == 2

\* cap on the STR buffer length explored by the general specification
MaxStrLen == 1

\* SpecStream: widest screen, longest text after the CSI sequence, longest
\* chunk of one Write
MaxTextCols == 4

MaxText == 4

MaxChunk == 3

\* SpecCsiParse: most fields in one body
MaxFields == 2

\* SpecLong: how far past its limit the CSI buffer is followed
MaxOver == 2

\* SpecUtf8: most code points in one stream
MaxRunes == 2

\* number of readers that query the engine
MaxReaders == 2

\* most code points one Write or ReadFrom delivers
MaxFeed == 6

\* most bytes one Read of ReadFrom's reader returns
MaxFill == 6

\* most code points of a bulk feed: enough for the lock to be held for more
\* than 1024 of them with a rune's worth still buffered
MaxBulk == 1030

\* most rows of a screen with a scroll region
MaxScrollRows == 3

\* largest line count passed to a scroll
MaxScrollBy == 2

\* widest screen of the tab-stop specification: two tab intervals and more
MaxTabCols == 18

\* ------------------------------------------------------------------------
\* Program constants
\* ------------------------------------------------------------------------

tabspaces == 8

attrReverse == 1

attrUnderline == 2

attrBold == 4

attrGfx == 8

attrItalic == 16

attrBlink == 32

attrWrap == 64

cursorWrapNext == 2

cursorOrigin == 4

ModeWrap == 1

ModeInsert == 2

ModeAppKeypad == 4

ModeAltScreen == 8

ModeCRLF == 16

ModeMouseButton == 32

ModeMouseMotion == 64

ModeReverse == 128

ModeKeyboardLock == 256

ModeHide == 512

ModeEcho == 1024

ModeAppCursor == 2048

ModeMouseSgr == 4096

Mode8bit == 8192

ModeBlink == 16384

ModeFBlink == 32768

ModeFocus == 65536

ModeMouseX10 == 131072

ModeMouseMany == 262144

\* the bits of ModeMouseMask
ModeMouseMask == <<ModeMouseButton, ModeMouseMotion, ModeMouseX10, ModeMouseMany>>

\* 0xff80 + iota: the 17th and 18th constant of the block of colours that
\* starts at Black = iota, so iota is 16 and 17
DefaultFG == 65424

DefaultBG == 65425

\* limit of the CSI buffer (csiEscape.put) and of the STR buffer (strEscape.put)
CsiLimit == 256

StrLimit == 256

\* code points the handlers switch on
NUL == 0

SOH == 1

ENQ == 5

BEL == 7

BS == 8

HT == 9

LF == 10

VT == 11

FF == 12

CR == 13

SO == 14

SI == 15

XON == 17

XOFF == 19

CAN == 24

SUB == 26

ESC == 27

DEL == 127

SPACE == 32

\* ------------------------------------------------------------------------
\* Helpers: Go's integer and bit operators
\* ------------------------------------------------------------------------

min(a, b) == IF a < b THEN a ELSE b

max(a, b) == IF a > b THEN a ELSE b

clamp(val, lo, hi) == IF val < lo THEN lo ELSE IF val > hi THEN hi ELSE val

between(val, lo, hi) == ~(val < lo \/ val > hi)

\* m & bit != 0, for a single-bit mask
HasBit(m, bit) == (m \div bit) % 2 = 1

\* m |= bit
SetBit(m, bit) == IF HasBit(m, bit) THEN m ELSE m + bit

\* m &^= bit
ClearBit(m, bit) == IF HasBit(m, bit) THEN m - bit ELSE m

\* m ^= bit
XorBit(m, bit) == IF HasBit(m, bit) THEN m - bit ELSE m + bit

\* the zero value of a glyph (make(line, cols) fills a row with these)
ZeroGlyph == [c |-> 0, mode |-> 0, fg |-> 0, bg |-> 0]

ZeroCursor == [attr |-> ZeroGlyph, x |-> 0, y |-> 0, state |-> 0]

\* ------------------------------------------------------------------------
\* Grid primitives (type VT)
\* ------------------------------------------------------------------------

\* a Go run-time panic (index out of range): processing aborts
Panic(s) == [s EXCEPT !.panic = TRUE]

InGrid(s, x, y) ==
    /\ y >= 0 /\ y < Len(s.lines)
    /\ x >= 0 /\ x < Len(s.lines[y + 1])

\* t.lines[y][x] = g
SetCell(s, x, y, g) ==
    IF ~InGrid(s, x, y) THEN Panic(s)
    ELSE [s EXCEPT !.lines[y + 1][x + 1] = g]

\* t.dirty[y] = true
MarkDirty(s, y) ==
    IF y < 0 \/ y >= Len(s.dirty) THEN Panic(s)
    ELSE [s EXCEPT !.dirty[y + 1] = TRUE]

gfxCharTable ==
    <<8593, 8595, 8594, 8592, 9608, 9626, 9731,
      0, 0, 0, 0, 0, 0, 0, 0,
      0, 0, 0, 0, 0, 0, 0, 0,
      0, 0, 0, 0, 0, 0, 0, 32,
      9670, 9618, 9225, 9228, 9229, 9226, 176, 177,
      9252, 9227, 9496, 9488, 9484, 9492, 9532, 9146,
      9147, 9472, 9148, 9149, 9500, 9508, 9524, 9516,
      9474, 8804, 8805, 960, 8800, 163, 183>>

\* the code point stored for c under the attribute attr
gfxChar(c, attr) ==
    IF HasBit(attr.mode, attrGfx) /\ c >= 65 /\ c <= 126
       /\ gfxCharTable[c - 65 + 1] # 0
    THEN gfxCharTable[c - 65 + 1]
    ELSE c

setChar(s, c, attr, x, y) ==
    LET g0 == [attr EXCEPT !.c = gfxChar(c, attr)]
        g  == IF HasBit(attr.mode, attrBold) /\ attr.fg < 8
              THEN [g0 EXCEPT !.fg = attr.fg + 8]
              ELSE g0
    IN SetCell(MarkDirty(s, y), x, y, g)

\* the rectangle clear() works on, after the swaps and the clamps
clearRect(s, x0, y0, x1, y1) ==
    [x0 |-> clamp(min(x0, x1), 0, s.cols - 1),
     x1 |-> clamp(max(x0, x1), 0, s.cols - 1),
     y0 |-> clamp(min(y0, y1), 0, s.rows - 1),
     y1 |-> clamp(max(y0, y1), 0, s.rows - 1)]

clear(s, x0, y0, x1, y1) ==
    LET r == clearRect(s, x0, y0, x1, y1)
        blank == [s.cur.attr EXCEPT !.c = SPACE]
        ok == \A y \in r.y0 .. r.y1 :
                 /\ y >= 0 /\ y < Len(s.dirty)
                 /\ \A x \in r.x0 .. r.x1 : InGrid(s, x, y)
    IN IF ~ok THEN Panic(s)
       ELSE [s EXCEPT
               !.dirty = [i \in 1 .. Len(s.dirty) |->
                            IF i - 1 >= r.y0 /\ i - 1 <= r.y1
                            THEN TRUE ELSE s.dirty[i]],
               !.lines = [i \in 1 .. Len(s.lines) |->
                            IF i - 1 >= r.y0 /\ i - 1 <= r.y1
                            THEN [j \in 1 .. Len(s.lines[i]) |->
                                    IF j - 1 >= r.x0 /\ j - 1 <= r.x1
                                    THEN blank ELSE s.lines[i][j]]
                            ELSE s.lines[i]]]

clearAll(s) == clear(s, 0, 0, s.cols - 1, s.rows - 1)

moveTo(s, x, y) ==
    LET miny == IF HasBit(s.cur.state, cursorOrigin) THEN s.top ELSE 0
        maxy == IF HasBit(s.cur.state, cursorOrigin) THEN s.bottom ELSE s.rows - 1
    IN [s EXCEPT !.cur.state = ClearBit(s.cur.state, cursorWrapNext),
                 !.cur.x = clamp(x, 0, s.cols - 1),
                 !.cur.y = clamp(y, miny, maxy)]

moveAbsTo(s, x, y) ==
    moveTo(s, x, IF HasBit(s.cur.state, cursorOrigin) THEN y + s.top ELSE y)

dirtyAll(s) ==
    IF s.rows > Len(s.dirty) THEN Panic(s)
    ELSE [s EXCEPT !.dirty = [i \in 1 .. Len(s.dirty) |->
                                IF i - 1 < s.rows THEN TRUE ELSE s.dirty[i]]]

\* the active grid overwritten by the other one instead of exchanged
swapScreenCopy(s) ==
    dirtyAll([s EXCEPT !.lines = s.altLines,
                       !.altActive = ~s.altActive,
                       !.mode = XorBit(s.mode, ModeAltScreen)])

\* altActive records which buffer t.lines refers to: the swap exchanges the
\* two slice headers
swapScreen(s) ==
    dirtyAll([s EXCEPT !.lines = s.altLines, !.altLines = s.lines,
                       !.altActive = ~s.altActive,
                       !.mode = XorBit(s.mode, ModeAltScreen)])

setScroll(s, top, bottom) ==
    LET tp == clamp(top, 0, s.rows - 1)
        bt == clamp(bottom, 0, s.rows - 1)
    IN [s EXCEPT !.top = min(tp, bt), !.bottom = max(tp, bt)]

saveCursor(s) == [s EXCEPT !.curSaved = s.cur]

\* restoreCursor without the clamping move
restoreCursorRaw(s) == [s EXCEPT !.cur = s.curSaved]

restoreCursor(s) ==
    LET s1 == [s EXCEPT !.cur = s.curSaved]
    IN moveTo(s1, s1.cur.x, s1.cur.y)

\* t.lines[i], t.lines[j] = t.lines[j], t.lines[i] ; both rows dirty
swapLines(s, i, j) ==
    IF i < 0 \/ j < 0 \/ i >= Len(s.lines) \/ j >= Len(s.lines)
       \/ i >= Len(s.dirty) \/ j >= Len(s.dirty)
    THEN Panic(s)
    ELSE [s EXCEPT !.lines[i + 1] = s.lines[j + 1],
                   !.lines[j + 1] = s.lines[i + 1],
                   !.dirty[i + 1] = TRUE,
                   !.dirty[j + 1] = TRUE]

RECURSIVE scrollDownLoop(_, _, _, _)
\* for i := t.bottom; i >= orig+n; i-- { swap lines[i], lines[i-n] }
scrollDownLoop(s, i, orig, n) ==
    IF i >= orig + n
    THEN scrollDownLoop(swapLines(s, i, i - n), i - 1, orig, n)
    ELSE s

scrollDown(s, orig, n0) ==
    LET n == clamp(n0, 0, s.bottom - orig + 1)
        s1 == clear(s, 0, s.bottom - n + 1, s.cols - 1, s.bottom)
    IN scrollDownLoop(s1, s.bottom, orig, n)

RECURSIVE scrollUpLoop(_, _, _)
\* for i := orig; i <= t.bottom-n; i++ { swap lines[i], lines[i+n] }
scrollUpLoop(s, i, n) ==
    IF i <= s.bottom - n
    THEN scrollUpLoop(swapLines(s, i, i + n), i + 1, n)
    ELSE s

\* scrollUp without the clear: the rows rotate
scrollUpKeep(s, orig, n0) ==
    LET n == clamp(n0, 0, s.bottom - orig + 1)
    IN scrollUpLoop(s, orig, n)

scrollUp(s, orig, n0) ==
    LET n == clamp(n0, 0, s.bottom - orig + 1)
        s1 == clear(s, 0, orig, s.cols - 1, orig + n - 1)
    IN scrollUpLoop(s1, orig, n)

insertBlankLines(s, n) ==
    IF s.cur.y < s.top \/ s.cur.y > s.bottom THEN s
    ELSE scrollDown(s, s.cur.y, n)

deleteLines(s, n) ==
    IF s.cur.y < s.top \/ s.cur.y > s.bottom THEN s
    ELSE scrollUp(s, s.cur.y, n)

\* copy(row[dst:dst+size], row[src:src+size]) on row y: a slice expression
\* out of range panics, the copy itself is safe for ranges that overlap
copyCells(s, y, dst, src, size) ==
    IF y < 0 \/ y >= Len(s.lines) \/ size < 0 \/ dst < 0 \/ src < 0
       \/ dst + size > Len(s.lines[y + 1]) \/ src + size > Len(s.lines[y + 1])
    THEN Panic(s)
    ELSE [s EXCEPT !.lines[y + 1] =
            [j \in 1 .. Len(@) |->
                IF j - 1 >= dst /\ j - 1 < dst + size
                THEN s.lines[y + 1][j - dst + src]
                ELSE s.lines[y + 1][j]]]

insertBlanks(s, n) ==
    LET src == s.cur.x
        dst == src + n
        size == s.cols - dst
        s1 == MarkDirty(s, s.cur.y)
    IN IF s1.panic THEN s1
       ELSE IF dst >= s.cols
       THEN clear(s1, s.cur.x, s.cur.y, s.cols - 1, s.cur.y)
       ELSE LET s2 == copyCells(s1, s.cur.y, dst, src, size)
            IN IF s2.panic THEN s2
               ELSE clear(s2, src, s.cur.y, dst - 1, s.cur.y)

deleteChars(s, n) ==
    LET src == s.cur.x + n
        dst == s.cur.x
        size == s.cols - src
        s1 == MarkDirty(s, s.cur.y)
    IN IF s1.panic THEN s1
       ELSE IF src >= s.cols
       THEN clear(s1, s.cur.x, s.cur.y, s.cols - 1, s.cur.y)
       ELSE LET s2 == copyCells(s1, s.cur.y, dst, src, size)
            IN IF s2.panic THEN s2
               ELSE clear(s2, s.cols - n, s.cur.y, s.cols - 1, s.cur.y)

RECURSIVE tabForward(_, _)
\* for x++; x < t.cols && !t.tabs[x]; x++ {}   (entered with x already bumped)
tabForward(s, x) ==
    IF x < s.cols /\ x >= 0 /\ x < Len(s.tabs) /\ ~s.tabs[x + 1]
    THEN tabForward(s, x + 1)
    ELSE x

RECURSIVE tabBackward(_, _)
\* for x--; x > 0 && !t.tabs[x]; x-- {}
tabBackward(s, x) ==
    IF x > 0 /\ x < Len(s.tabs) /\ ~s.tabs[x + 1]
    THEN tabBackward(s, x - 1)
    ELSE x

putTab(s, forward) ==
    LET x == s.cur.x
        stop == IF forward THEN tabForward(s, x + 1) ELSE tabBackward(s, x - 1)
        \* the loops read t.tabs[stop] unless the column test ended them
        bad == IF forward THEN stop < s.cols /\ (stop < 0 \/ stop >= Len(s.tabs))
               ELSE stop > 0 /\ stop >= Len(s.tabs)
    IN IF forward /\ x = s.cols THEN s
       ELSE IF ~forward /\ x = 0 THEN s
       ELSE IF bad THEN Panic(s)
       ELSE moveTo(s, stop, s.cur.y)

\* newline without the scroll: the cursor stays on the bottom row
newlineNoScroll(s, firstCol) ==
    LET atBottom == s.cur.y = s.bottom
        y == IF atBottom THEN s.cur.y ELSE s.cur.y + 1
    IN IF firstCol THEN moveTo(s, 0, y) ELSE moveTo(s, s.cur.x, y)

newline(s, firstCol) ==
    LET atBottom == s.cur.y = s.bottom
        s1 == IF atBottom THEN scrollUp(s, s.top, 1) ELSE s
        y == IF atBottom THEN s.cur.y ELSE s.cur.y + 1
    IN IF firstCol THEN moveTo(s1, 0, y) ELSE moveTo(s1, s1.cur.x, y)

\* the tab-stop vector after reset: stops at every multiple of tabspaces
resetTabs(tabs) ==
    [i \in 1 .. Len(tabs) |-> (i - 1) >= tabspaces /\ (i - 1) % tabspaces = 0]

\* reset that clears the inactive grid as well
resetBoth(s) ==
    LET c0 == [ZeroCursor EXCEPT !.attr.fg = DefaultFG, !.attr.bg = DefaultBG]
        s1 == saveCursor([s EXCEPT !.cur = c0])
        s2 == [s1 EXCEPT !.tabs = resetTabs(s1.tabs),
                         !.top = 0,
                         !.bottom = s1.rows - 1,
                         !.mode = ModeWrap]
        s3 == clear(s2, 0, 0, s2.rows - 1, s2.cols - 1)
    IN moveTo([s3 EXCEPT !.altLines = s3.lines], 0, 0)

reset(s) ==
    LET c0 == [ZeroCursor EXCEPT !.attr.fg = DefaultFG, !.attr.bg = DefaultBG]
        s1 == saveCursor([s EXCEPT !.cur = c0])
        s2 == [s1 EXCEPT !.tabs = resetTabs(s1.tabs),
                         !.top = 0,
                         !.bottom = s1.rows - 1,
                         !.mode = ModeWrap]
        \* the source passes (0, 0, rows-1, cols-1) for (x0, y0, x1, y1)
        s3 == clear(s2, 0, 0, s2.rows - 1, s2.cols - 1)
    IN moveTo(s3, 0, 0)

\* the rows left where they are
slideRowsNone(rows, slide, n) == rows

\* copy(rows, rows[slide:slide+n]): the first n rows take the rows slide
\* places further down
slideRows(rows, slide, n) ==
    [i \in 1 .. Len(rows) |-> IF i <= n THEN rows[i + slide] ELSE rows[i]]

\* the rows taken over by assignment instead of copy: an old row keeps its
\* own length
growRowsAlias(old, cols, rows, minrows) ==
    [i \in 1 .. rows |->
        IF i <= minrows /\ i <= Len(old) THEN old[i]
        ELSE [j \in 1 .. cols |-> ZeroGlyph]]

\* make(line, cols) for every row, then copy(new[i], old[i]) for i < minrows
growRows(old, cols, rows, minrows) ==
    [i \in 1 .. rows |->
        [j \in 1 .. cols |->
            IF i <= minrows /\ i <= Len(old) /\ j <= Len(old[i])
            THEN old[i][j] ELSE ZeroGlyph]]

\* the two clears of one pass of the final loop of Resize
resizeClear(s, mincols, minrows, cols, rows) ==
    LET s1 == IF mincols < cols /\ minrows > 0
              THEN clear(s, mincols, 0, cols - 1, minrows - 1) ELSE s
        s2 == IF cols > 0 /\ minrows < rows
              THEN clear(s1, 0, minrows, cols - 1, rows - 1) ELSE s1
    IN swapScreen(s2)

\* Resize past its two early returns
resizeTo(s, cols, rows) ==
    LET slide == s.cur.y - rows + 1
        minrows == min(rows, s.rows)
        mincols == min(cols, s.cols)
    IN IF slide > 0 /\ (slide + rows > Len(s.lines) \/ slide + rows > Len(s.altLines))
       THEN Panic(s)
       ELSE
       LET lines == IF slide > 0 THEN slideRows(s.lines, slide, rows) ELSE s.lines
           altLines == IF slide > 0 THEN slideRows(s.altLines, slide, rows)
                       ELSE s.altLines
           \* the loop under `if cols > t.cols` stores into the old vector
           \* `tabs` only, after it has been copied: t.tabs does not see it
           s1 == [s EXCEPT
                    !.lines = growRows(lines, cols, rows, minrows),
                    !.altLines = growRows(altLines, cols, rows, minrows),
                    !.dirty = [i \in 1 .. rows |-> TRUE],
                    !.tabs = [j \in 1 .. cols |->
                                IF j <= Len(s.tabs) THEN s.tabs[j] ELSE FALSE],
                    !.cols = cols,
                    !.rows = rows]
           s2 == setScroll(s1, 0, rows - 1)
           s3 == moveTo(s2, s2.cur.x, s2.cur.y)
           s4 == resizeClear(s3, mincols, minrows, cols, rows)
       IN resizeClear(s4, mincols, minrows, cols, rows)

\* the value Resize returns
ResizeResult(s, cols, rows) ==
    IF cols = s.cols /\ rows = s.rows THEN FALSE
    ELSE IF cols < 1 \/ rows < 1 THEN FALSE
    ELSE s.cur.y - rows + 1 > 0

\* Resize without the test for an unchanged size
ResizeAlways(s, cols, rows) ==
    IF cols < 1 \/ rows < 1 THEN s ELSE resizeTo(s, cols, rows)

Resize(s, cols, rows) ==
    IF cols = s.cols /\ rows = s.rows THEN s
    ELSE IF cols < 1 \/ rows < 1 THEN s
    ELSE resizeTo(s, cols, rows)

\* the VT value New starts from: the zero struct with the state function
\* and the default colours set
ZeroVT ==
    [cols |-> 0, rows |-> 0, lines |-> <<>>, altLines |-> <<>>,
     altActive |-> FALSE,
     dirty |-> <<>>, tabs |-> <<>>,
     cur |-> [ZeroCursor EXCEPT !.attr.fg = DefaultFG, !.attr.bg = DefaultBG],
     curSaved |-> ZeroCursor,
     top |-> 0, bottom |-> 0, mode |-> 0,
     state |-> "parse",
     str |-> [typ |-> 0, buf |-> <<>>, args |-> <<>>],
     csi |-> [buf |-> <<>>, args |-> <<>>, mode |-> 0, priv |-> FALSE],
     panic |-> FALSE]

New(columns, rows) == reset(Resize(ZeroVT, columns, rows))

\* ------------------------------------------------------------------------
\* Modes and attributes (setMode, setAttr)
\* ------------------------------------------------------------------------

\* t.modMode(set, bit) on the mode word m
modMode(m, set, bit) == IF set THEN SetBit(m, bit) ELSE ClearBit(m, bit)

RECURSIVE clearBits(_, _)
\* t.modMode(false, mask) for a mask of several bits
clearBits(m, bits) ==
    IF bits = <<>> THEN m ELSE clearBits(ClearBit(m, Head(bits)), Tail(bits))

\* a mouse mode set or reset with the mask left as it is
mouseModeKeep(s, set, bit) ==
    [s EXCEPT !.mode = modMode(s.mode, set, bit)]

\* the mouse modes: the mask is cleared, then the one mode is set or reset
mouseMode(s, set, bit) ==
    [s EXCEPT !.mode = modMode(clearBits(s.mode, ModeMouseMask), set, bit)]

\* case 1048, and the end of case 1049
saveOrRestore(s, set) == IF set THEN saveCursor(s) ELSE restoreCursor(s)

\* case 1049, 47, 1047
altScreen(s, set, a) ==
    LET alt == HasBit(s.mode, ModeAltScreen)
        s1 == IF alt THEN clear(s, 0, 0, s.cols - 1, s.rows - 1) ELSE s
        s2 == IF ~set \/ ~alt THEN swapScreen(s1) ELSE s1
    IN IF a # 1049 THEN s2 ELSE saveOrRestore(s2, set)

\* one private mode a
setPrivMode(s, set, a) ==
    IF a = 1 THEN [s EXCEPT !.mode = modMode(@, set, ModeAppCursor)]
    ELSE IF a = 5 THEN [s EXCEPT !.mode = modMode(@, set, ModeReverse)]
    ELSE IF a = 6
    THEN moveAbsTo([s EXCEPT !.cur.state = modMode(@, set, cursorOrigin)], 0, 0)
    ELSE IF a = 7 THEN [s EXCEPT !.mode = modMode(@, set, ModeWrap)]
    ELSE IF a \in {0, 2, 3, 4, 8, 18, 19, 42, 12} THEN s
    ELSE IF a = 25 THEN [s EXCEPT !.mode = modMode(@, ~set, ModeHide)]
    ELSE IF a = 9 THEN mouseMode(s, set, ModeMouseX10)
    ELSE IF a = 1000 THEN mouseMode(s, set, ModeMouseButton)
    ELSE IF a = 1002 THEN mouseMode(s, set, ModeMouseMotion)
    ELSE IF a = 1003 THEN mouseMode(s, set, ModeMouseMany)
    ELSE IF a = 1004 THEN [s EXCEPT !.mode = modMode(@, set, ModeFocus)]
    ELSE IF a = 1006 THEN [s EXCEPT !.mode = modMode(@, set, ModeMouseSgr)]
    ELSE IF a = 1034 THEN [s EXCEPT !.mode = modMode(@, set, Mode8bit)]
    ELSE IF a \in {1049, 47, 1047} THEN altScreen(s, set, a)
    ELSE IF a = 1048 THEN saveOrRestore(s, set)
    ELSE s

\* one mode a that is not private
setAnsiMode(s, set, a) ==
    IF a = 2 THEN [s EXCEPT !.mode = modMode(@, set, ModeKeyboardLock)]
    ELSE IF a = 4 THEN [s EXCEPT !.mode = modMode(@, set, ModeInsert)]
    ELSE IF a = 12 THEN [s EXCEPT !.mode = modMode(@, set, ModeEcho)]
    ELSE IF a = 20 THEN [s EXCEPT !.mode = modMode(@, set, ModeCRLF)]
    ELSE s

RECURSIVE setMode(_, _, _, _)
\* VT.setMode(priv, set, args): the modes of args in order
setMode(s, priv, set, args) ==
    IF args = <<>> \/ s.panic THEN s
    ELSE setMode(IF priv THEN setPrivMode(s, set, Head(args))
                 ELSE setAnsiMode(s, set, Head(args)),
                 priv, set, Tail(args))

\* the attribute bits SGR 0 clears
SgrBits == <<attrReverse, attrUnderline, attrBold, attrItalic, attrBlink>>

\* case 0 with the background left as it is
sgrResetKeepBg(g) ==
    [g EXCEPT !.mode = clearBits(@, SgrBits), !.fg = DefaultFG]

\* case 0 of setAttr on the template g
sgrReset(g) ==
    [g EXCEPT !.mode = clearBits(@, SgrBits), !.fg = DefaultFG, !.bg = DefaultBG]

\* the cases of setAttr that take one parameter
sgrOne(g, a) ==
    IF a = 0 THEN sgrReset(g)
    ELSE IF a = 1 THEN [g EXCEPT !.mode = SetBit(@, attrBold)]
    ELSE IF a = 3 THEN [g EXCEPT !.mode = SetBit(@, attrItalic)]
    ELSE IF a = 4 THEN [g EXCEPT !.mode = SetBit(@, attrUnderline)]
    ELSE IF a \in {5, 6} THEN [g EXCEPT !.mode = SetBit(@, attrBlink)]
    ELSE IF a = 7 THEN [g EXCEPT !.mode = SetBit(@, attrReverse)]
    ELSE IF a \in {21, 22} THEN [g EXCEPT !.mode = ClearBit(@, attrBold)]
    ELSE IF a = 23 THEN [g EXCEPT !.mode = ClearBit(@, attrItalic)]
    ELSE IF a = 24 THEN [g EXCEPT !.mode = ClearBit(@, attrUnderline)]
    ELSE IF a \in {25, 26} THEN [g EXCEPT !.mode = ClearBit(@, attrBlink)]
    ELSE IF a = 27 THEN [g EXCEPT !.mode = ClearBit(@, attrReverse)]
    ELSE IF a = 39 THEN [g EXCEPT !.fg = DefaultFG]
    ELSE IF a = 49 THEN [g EXCEPT !.bg = DefaultBG]
    ELSE IF between(a, 30, 37) THEN [g EXCEPT !.fg = a - 30]
    ELSE IF between(a, 40, 47) THEN [g EXCEPT !.bg = a - 40]
    ELSE IF between(a, 90, 97) THEN [g EXCEPT !.fg = a - 90 + 8]
    ELSE IF between(a, 100, 107) THEN [g EXCEPT !.bg = a - 100 + 8]
    ELSE g

RECURSIVE setAttrLoop(_, _, _)
\* the loop of setAttr from index i (0-based) on the template g
setAttrLoop(g, attr, i) ==
    IF i >= Len(attr) THEN g
    ELSE LET a == attr[i + 1]
         IN IF a \in {38, 48}
            THEN IF i + 2 < Len(attr) /\ attr[i + 2] = 5
                 THEN LET v == attr[i + 3]
                          g1 == IF ~between(v, 0, 255) THEN g
                                ELSE IF a = 38 THEN [g EXCEPT !.fg = v]
                                ELSE [g EXCEPT !.bg = v]
                      IN setAttrLoop(g1, attr, i + 3)
                 ELSE setAttrLoop(g, attr, i + 1)
            ELSE setAttrLoop(sgrOne(g, a), attr, i + 1)

\* VT.setAttr(attr): an empty list stands for [0]
setAttr(s, attr) ==
    [s EXCEPT !.cur.attr = setAttrLoop(@, IF attr = <<>> THEN <<0>> ELSE attr, 0)]

\* ------------------------------------------------------------------------
\* CSI accumulator (csiEscape)
\* ------------------------------------------------------------------------

\* bytes the CSI parser and the escape dispatcher compare with
chHash == 35

chLParen == 40

chRParen == 41

chStar == 42

chPlus == 43

chMinus == 45

chZero == 48

chFive == 53

chSeven == 55

chEight == 56

chNine == 57

chSemi == 59

chLess == 60

chEquals == 61

chGreater == 62

chQuestion == 63

chA == 65

chB == 66

chC == 67

chD == 68

chE == 69

chH == 72

chK == 75

chM == 77

chP == 80

chZ == 90

chLBracket == 91

chBackslash == 92

chRBracket == 93

chCaret == 94

chUnderscore == 95

chLowerC == 99

chLowerK == 107

\* first and last final byte of a CSI sequence
FinalLo == 64

FinalHi == 126

\* number of decimal digits of the largest int (9223372036854775807)
MaxIntDigits == 19

MaxIntText == <<9, 2, 2, 3, 3, 7, 2, 0, 3, 6, 8, 5, 4, 7, 7, 5, 8, 0, 7>>

IsDigit(b) == b >= chZero /\ b <= chNine

\* strings.Split(s, sep) for a one-byte separator: the fields of s between
\* the separators, one more than there are separators
Split(s, sep) ==
    LET seps == {i \in 1 .. Len(s) : s[i] = sep}
        k == Cardinality(seps)
        pos(j) == IF j = 0 THEN 0
                  ELSE IF j = k + 1 THEN Len(s) + 1
                  ELSE CHOOSE i \in seps : Cardinality({m \in seps : m < i}) = j - 1
    IN [j \in 1 .. k + 1 |-> SubSeq(s, pos(j - 1) + 1, pos(j) - 1)]

\* d without its leading zeros
StripZeros(d) ==
    LET nz == {i \in 1 .. Len(d) : d[i] # chZero}
    IN IF nz = {} THEN <<>>
       ELSE SubSeq(d, CHOOSE i \in nz : \A j \in nz : i <= j, Len(d))

RECURSIVE DigitsLess(_, _)
\* a <= b for two digit texts of the same length (b given as digit values)
DigitsLess(a, b) ==
    IF a = <<>> THEN TRUE
    ELSE IF Head(a) - chZero < Head(b) THEN TRUE
    ELSE IF Head(a) - chZero > Head(b) THEN FALSE
    ELSE DigitsLess(Tail(a), Tail(b))

RECURSIVE DigitsVal(_, _)
DigitsVal(d, acc) ==
    IF d = <<>> THEN acc ELSE DigitsVal(Tail(d), acc * 10 + (Head(d) - chZero))

\* the digits of p after an optional sign
AtoiDigits(p) ==
    IF p # <<>> /\ (Head(p) = chPlus \/ Head(p) = chMinus) THEN Tail(p) ELSE p

\* strconv.Atoi(p) returns no error: an optional sign, at least one digit,
\* digits only, and a value an int can hold
AtoiOk(p) ==
    LET d == AtoiDigits(p)
        z == StripZeros(d)
    IN /\ d # <<>>
       /\ \A i \in 1 .. Len(d) : IsDigit(d[i])
       /\ \/ Len(z) < MaxIntDigits
          \/ Len(z) = MaxIntDigits /\ z # <<>> /\ DigitsLess(z, MaxIntText)
          \/ /\ Len(z) = MaxIntDigits /\ Head(p) = chMinus
             /\ DigitsLess(SubSeq(z, 1, MaxIntDigits - 1),
                           SubSeq(MaxIntText, 1, MaxIntDigits - 1))
             /\ z[MaxIntDigits] = chEight

\* the value strconv.Atoi(p) returns when it returns no error
AtoiVal(p) ==
    LET v == DigitsVal(StripZeros(AtoiDigits(p)), 0)
    IN IF Head(p) = chMinus THEN 0 - v ELSE v

\* the loop over the fields left after the first one
parseArgsFirst(ss) ==
    IF ss = <<>> \/ ~AtoiOk(Head(ss)) THEN <<>> ELSE <<AtoiVal(Head(ss))>>

\* the loop over the fields: stop at the first field Atoi rejects
parseArgs(ss) ==
    LET bad == {i \in 1 .. Len(ss) : ~AtoiOk(ss[i])}
        n == IF bad = {} THEN Len(ss)
             ELSE (CHOOSE i \in bad : \A j \in bad : i <= j) - 1
    IN [i \in 1 .. n |-> AtoiVal(ss[i])]

csiReset(c) == [c EXCEPT !.buf = <<>>, !.args = <<>>]

\* csiEscape.parse; the result carries panic = TRUE when s[0] or s[len(s)-1]
\* is out of range
csiParse(c) ==
    IF c.buf = <<>> THEN [csi |-> c, panic |-> TRUE]
    ELSE
    LET q == Head(c.buf) = chQuestion
        s == IF q THEN Tail(c.buf) ELSE c.buf
    IN IF s = <<>> THEN [csi |-> [c EXCEPT !.args = <<>>, !.priv = TRUE],
                         panic |-> TRUE]
       ELSE [csi |-> [c EXCEPT
                        !.priv = IF q THEN TRUE ELSE c.priv,
                        !.mode = s[Len(s)],
                        !.args = parseArgs(Split(SubSeq(s, 1, Len(s) - 1), chSemi))],
             panic |-> FALSE]

\* the final-byte range taken one byte too low
csiPutDoneLow(c, b) ==
    (b >= FinalLo - 1 /\ b <= FinalHi) \/ Len(c.buf) + 1 >= CsiLimit

\* csiEscape.put reports a complete sequence
csiPutDone(c, b) ==
    (b >= FinalLo /\ b <= FinalHi) \/ Len(c.buf) + 1 >= CsiLimit

csiPut(c, b) ==
    LET c1 == [c EXCEPT !.buf = Append(c.buf, b)]
    IN IF csiPutDone(c, b) THEN csiParse(c1) ELSE [csi |-> c1, panic |-> FALSE]

csiArg(c, i, def) ==
    IF i >= Len(c.args) \/ i < 0 THEN def ELSE c.args[i + 1]

\* Term.handleCSI: every case of the switch is a comment (TODO), so a
\* dispatched sequence changes nothing
handleCSI(s) == s

\* ------------------------------------------------------------------------
\* STR accumulator (strEscape)
\* ------------------------------------------------------------------------

strReset(r) == [r EXCEPT !.typ = 0, !.buf = <<>>, !.args = <<>>]

\* the code point appended whatever the buffer holds
strPutAll(r, c) == [r EXCEPT !.buf = Append(r.buf, c)]

strPut(r, c) ==
    IF Len(r.buf) < StrLimit THEN [r EXCEPT !.buf = Append(r.buf, c)] ELSE r

\* Term.handleSTR: parse() is empty and every case only reads the arguments
handleSTR(s) == s

\* ------------------------------------------------------------------------
\* The escape-sequence state machine (type Term's state functions)
\* ------------------------------------------------------------------------

isControlCode(c) == c < 32 \/ c = DEL

\* the value handleControlCodes returns: true unless c is no control code
\* or falls to the default case
ccHandled(c) ==
    c \in {HT, BS, CR, FF, VT, LF, BEL, ESC, SO, SI, SUB, CAN,
           ENQ, NUL, XON, XOFF, DEL}

handleControlCodes(s, c) ==
    IF ~isControlCode(c) THEN s
    ELSE IF c = HT THEN putTab(s, TRUE)
    ELSE IF c = BS THEN moveTo(s, s.cur.x - 1, s.cur.y)
    ELSE IF c = CR THEN moveTo(s, 0, s.cur.y)
    ELSE IF c \in {FF, VT, LF} THEN newline(s, HasBit(s.mode, ModeCRLF))
    ELSE IF c = ESC THEN [s EXCEPT !.csi = csiReset(s.csi), !.state = "parseEsc"]
    ELSE IF c \in {SUB, CAN} THEN [s EXCEPT !.csi = csiReset(s.csi)]
    ELSE s

\* the wrap taken without marking the cell it leaves
placeCharNoMark(s, c) ==
    LET wrap == HasBit(s.mode, ModeWrap) /\ HasBit(s.cur.state, cursorWrapNext)
        s1 == IF ~wrap THEN s ELSE newline(s, TRUE)
        s2 == setChar(s1, c, s1.cur.attr, s1.cur.x, s1.cur.y)
    IN IF s2.cur.x + 1 < s2.cols
       THEN moveTo(s2, s2.cur.x + 1, s2.cur.y)
       ELSE [s2 EXCEPT !.cur.state = SetBit(@, cursorWrapNext)]

\* the cursor moved on after every character, also in the last column
placeCharPast(s, c) ==
    LET wrap == HasBit(s.mode, ModeWrap) /\ HasBit(s.cur.state, cursorWrapNext)
        s1 == IF ~wrap THEN s
              ELSE IF ~InGrid(s, s.cur.x, s.cur.y) THEN Panic(s)
              ELSE newline(
                     SetCell(s, s.cur.x, s.cur.y,
                             [s.lines[s.cur.y + 1][s.cur.x + 1] EXCEPT
                                !.mode = SetBit(@, attrWrap)]),
                     TRUE)
        s2 == setChar(s1, c, s1.cur.attr, s1.cur.x, s1.cur.y)
    IN moveTo(s2, s2.cur.x + 1, s2.cur.y)

\* the character stored without the cursor moving on
placeCharStay(s, c) == setChar(s, c, s.cur.attr, s.cur.x, s.cur.y)

\* the part of parse after the control-code test: place c at the cursor
placeChar(s, c) ==
    LET wrap == HasBit(s.mode, ModeWrap) /\ HasBit(s.cur.state, cursorWrapNext)
        s1 == IF ~wrap THEN s
              ELSE IF ~InGrid(s, s.cur.x, s.cur.y) THEN Panic(s)
              ELSE newline(
                     SetCell(s, s.cur.x, s.cur.y,
                             [s.lines[s.cur.y + 1][s.cur.x + 1] EXCEPT
                                !.mode = SetBit(@, attrWrap)]),
                     TRUE)
        s2 == setChar(s1, c, s1.cur.attr, s1.cur.x, s1.cur.y)
    IN IF s2.cur.x + 1 < s2.cols
       THEN moveTo(s2, s2.cur.x + 1, s2.cur.y)
       ELSE [s2 EXCEPT !.cur.state = SetBit(@, cursorWrapNext)]

parse(s, c) ==
    IF isControlCode(c)
    THEN LET s1 == handleControlCodes(s, c)
         IN IF ccHandled(c) \/ ~HasBit(s1.cur.attr.mode, attrGfx)
            THEN s1
            ELSE placeChar(s1, c)
    ELSE placeChar(s, c)

parseEscCSI(s, c) ==
    IF ccHandled(c) THEN handleControlCodes(s, c)
    ELSE LET r == csiPut(s.csi, c % 256)
             s1 == [s EXCEPT !.csi = r.csi]
         IN IF r.panic THEN Panic(s1)
            ELSE IF csiPutDone(s.csi, c % 256) THEN handleCSI(s1)
            ELSE s1

parseEscStrEnd(s, c) ==
    IF ccHandled(c) THEN handleControlCodes(s, c)
    ELSE LET s1 == [s EXCEPT !.state = "parse"]
         IN IF c = chBackslash THEN handleSTR(s1) ELSE s1

parseEscAltCharset(s, c) ==
    IF ccHandled(c) THEN handleControlCodes(s, c)
    ELSE LET s1 == IF c = chZero
                   THEN [s EXCEPT !.cur.attr.mode = SetBit(@, attrGfx)]
                   ELSE IF c = chB
                   THEN [s EXCEPT !.cur.attr.mode = ClearBit(@, attrGfx)]
                   ELSE s
         IN [s1 EXCEPT !.state = "parse"]

RECURSIVE fillE(_, _)
\* the two loops of the alignment test, cell k = y*cols + x
fillE(s, k) ==
    IF k >= s.rows * s.cols THEN s
    ELSE fillE(setChar(s, chE, s.cur.attr, k % s.cols, k \div s.cols), k + 1)

parseEscTest(s, c) ==
    IF ccHandled(c) THEN handleControlCodes(s, c)
    ELSE LET s1 == IF c = chEight THEN fillE(s, 0) ELSE s
         IN [s1 EXCEPT !.state = "parse"]

parseEsc(s, c) ==
    IF ccHandled(c) THEN handleControlCodes(s, c)
    ELSE IF c = chLBracket THEN [s EXCEPT !.state = "parseEscCSI"]
    ELSE IF c = chHash THEN [s EXCEPT !.state = "parseEscTest"]
    ELSE IF c \in {chP, chUnderscore, chCaret, chRBracket, chLowerK}
    THEN [s EXCEPT !.str = [strReset(s.str) EXCEPT !.typ = c],
                   !.state = "parseEscStr"]
    ELSE IF c = chLParen THEN [s EXCEPT !.state = "parseEscAltCharset"]
    ELSE IF c = chD
    THEN [(IF s.cur.y = s.bottom THEN s ELSE moveTo(s, s.cur.x, s.cur.y + 1))
            EXCEPT !.state = "parse"]
    ELSE IF c = chE THEN [newline(s, TRUE) EXCEPT !.state = "parse"]
    ELSE IF c = chH
    THEN IF s.cur.x < 0 \/ s.cur.x >= Len(s.tabs) THEN Panic(s)
         ELSE [s EXCEPT !.tabs[s.cur.x + 1] = TRUE, !.state = "parse"]
    ELSE IF c = chM
    THEN [(IF s.cur.y = s.top THEN s ELSE moveTo(s, s.cur.x, s.cur.y - 1))
            EXCEPT !.state = "parse"]
    ELSE IF c = chLowerC THEN [reset(s) EXCEPT !.state = "parse"]
    ELSE IF c = chEquals
    THEN [s EXCEPT !.mode = SetBit(@, ModeAppKeypad), !.state = "parse"]
    ELSE IF c = chGreater
    THEN [s EXCEPT !.mode = ClearBit(@, ModeAppKeypad), !.state = "parse"]
    ELSE IF c = chSeven THEN [saveCursor(s) EXCEPT !.state = "parse"]
    ELSE IF c = chEight THEN [restoreCursor(s) EXCEPT !.state = "parse"]
    ELSE [s EXCEPT !.state = "parse"]

parseEscStr(s, c) ==
    IF c = ESC THEN [s EXCEPT !.state = "parseEscStrEnd"]
    ELSE IF c = BEL THEN handleSTR([s EXCEPT !.state = "parse"])
    ELSE [s EXCEPT !.str = strPut(s.str, c)]

\* t.state(c)
put(s, c) ==
    IF s.state = "parse" THEN parse(s, c)
    ELSE IF s.state = "parseEsc" THEN parseEsc(s, c)
    ELSE IF s.state = "parseEscCSI" THEN parseEscCSI(s, c)
    ELSE IF s.state = "parseEscStr" THEN parseEscStr(s, c)
    ELSE IF s.state = "parseEscStrEnd" THEN parseEscStrEnd(s, c)
    ELSE IF s.state = "parseEscAltCharset" THEN parseEscAltCharset(s, c)
    ELSE parseEscTest(s, c)

\* ------------------------------------------------------------------------
\* The public surface: Write and Cell
\* ------------------------------------------------------------------------

\* unicode.ReplacementChar, which ReadRune returns with size 1 for a byte
\* that starts no valid sequence
RuneError == 65533

\* first byte of a two-byte, three-byte, four-byte sequence
Lead2 == 194

Lead3 == 224

Lead4 == 240

LeadEnd == 245

IsCont(b, lo, hi) == b >= lo /\ b <= hi

\* the range utf8.DecodeRune accepts for the second byte after first byte b0
SecondLo(b0) == IF b0 = 224 THEN 160 ELSE IF b0 = 240 THEN 144 ELSE 128

SecondHi(b0) == IF b0 = 237 THEN 159 ELSE IF b0 = 244 THEN 143 ELSE 191

\* bytes.Reader.ReadRune on the non-empty rest p: the code point and the
\* number of bytes it takes
DecodeRune(p) ==
    LET b0 == p[1]
        n == Len(p)
        bad == [c |-> RuneError, sz |-> 1]
    IN IF b0 < 128 THEN [c |-> b0, sz |-> 1]
       ELSE IF b0 < Lead2 \/ b0 >= LeadEnd THEN bad
       ELSE IF b0 < Lead3
       THEN IF n < 2 \/ ~IsCont(p[2], 128, 191) THEN bad
            ELSE [c |-> (b0 % 32) * 64 + (p[2] % 64), sz |-> 2]
       ELSE IF b0 < Lead4
       THEN IF n < 3 \/ ~IsCont(p[2], SecondLo(b0), SecondHi(b0))
               \/ ~IsCont(p[3], 128, 191) THEN bad
            ELSE [c |-> (b0 % 16) * 4096 + (p[2] % 64) * 64 + (p[3] % 64),
                  sz |-> 3]
       ELSE IF n < 4 \/ ~IsCont(p[2], SecondLo(b0), SecondHi(b0))
               \/ ~IsCont(p[3], 128, 191) \/ ~IsCont(p[4], 128, 191) THEN bad
            ELSE [c |-> (b0 % 8) * 262144 + (p[2] % 64) * 4096
                        + (p[3] % 64) * 64 + (p[4] % 64),
                  sz |-> 4]

RECURSIVE WriteLoop(_, _, _)
\* the loop of Write over the unread bytes p, with `written` bytes counted
WriteLoop(s, p, written) ==
    IF p = <<>> \/ s.panic THEN [t |-> s, n |-> written]
    ELSE LET r == DecodeRune(p)
         IN IF r.c = RuneError /\ r.sz = 1
            THEN IF Len(p) = 1 THEN [t |-> s, n |-> written]
                 ELSE WriteLoop(s, Tail(p), written + 1)
            ELSE WriteLoop(put(s, r.c), SubSeq(p, r.sz + 1, Len(p)),
                           written + r.sz)

\* Write started from the ground state instead of the state the last call
\* left
WriteFresh(s, p) == WriteLoop([s EXCEPT !.state = "parse"], p, 0)

\* VT.Write(p): the engine afterwards and the count returned
Write(s, p) == WriteLoop(s, p, 0)

\* VT.Cell(x, y): the code point of the cell
Cell(s, x, y) == s.lines[y + 1][x + 1].c

\* ------------------------------------------------------------------------
\* Specifications
\* ------------------------------------------------------------------------

\* the zero value of sync.RWMutex: no writer, no reader
Unlocked == [w |-> "", r |-> 0]

\* no caller besides the one the specification drives
NoCallers == <<>>

\* the sizes an engine is constructed with or resized to
Sizes(cells) ==
    {d \in (1 .. MaxCols) \X (1 .. MaxRows) : d[1] * d[2] <= cells}

\* a step is explored only while the accumulators stay within the caps
WithinCaps(s, c, csiCap, strCap) ==
    /\ s.state = "parseEscCSI" /\ ~ccHandled(c) => Len(s.csi.buf) < csiCap
    /\ s.state = "parseEscStr" /\ c \notin {ESC, BEL} => Len(s.str.buf) < strCap

\* VT.Write / VT.ReadFrom deliver one code point to the state function
Feed(c) ==
    /\ ~t.panic
    /\ WithinCaps(t, c, MaxCsiLen, MaxStrLen)
    /\ t' = put(t, c)
    /\ last' = [op |-> "put", a |-> c, b |-> 0, st |-> t.state,
                 cols |-> t.cols, rows |-> t.rows]
    /\ UNCHANGED <<fed, mu, proc>>

\* VT.Resize
DoResize(cols, rows) ==
    /\ ~t.panic
    /\ t' = Resize(t, cols, rows)
    /\ last' = [op |-> "Resize", a |-> cols, b |-> rows, st |-> t.state,
                 cols |-> t.cols, rows |-> t.rows, y |-> t.cur.y]
    /\ UNCHANGED <<fed, mu, proc>>

InitSized(cells) ==
    /\ \E d \in Sizes(cells) : t = New(d[1], d[2])
    /\ last = [op |-> "New", a |-> 0, b |-> 0, st |-> "parse",
                cols |-> 0, rows |-> 0]
    /\ fed = <<>>
    /\ mu = Unlocked
    /\ proc = NoCallers

\* Spec: the screen.  Streams of control codes, printable code points and
\* the escape sequences that move the cursor, scroll, save and restore,
\* reset and fill the screen, interleaved with resizes.
Inputs(st) ==
    IF st = "parse" THEN {ESC, LF, BS, HT, CR, chE}
    ELSE IF st = "parseEsc"
    THEN {LF, chHash, chD, chE, chH, chM, chLowerC, chSeven, chEight, chBackslash}
    ELSE {LF, chEight, chE}

Init == InitSized(MaxCells)

Next ==
    \/ \E c \in Inputs(t.state) : Feed(c)
    \/ \E d \in Sizes(MaxParserCells) \cup {<<0, 1>>, <<1, 0>>} : DoResize(d[1], d[2])

Spec == Init /\ [][Next]_vars

\* SpecParser: the state machine.  Streams that reach every parser state,
\* with control codes, parameter bytes, final bytes and terminators in
\* each, on small screens, interleaved with resizes.
ParserInputs(st) ==
    IF st = "parse" THEN {ESC, LF, chE}
    ELSE IF st = "parseEsc"
    THEN {CAN, chLBracket, chRBracket, chHash, chLParen, chBackslash}
    ELSE IF st = "parseEscCSI"
    THEN {ESC, LF, CAN, SOH, chQuestion, chZero, chSemi, chLowerC}
    ELSE IF st = "parseEscStr" THEN {ESC, BEL, chZero}
    ELSE IF st = "parseEscStrEnd" THEN {ESC, LF, chBackslash, chE}
    ELSE IF st = "parseEscAltCharset" THEN {ESC, LF, chA}
    ELSE {ESC, LF, chEight}

InitParser == InitSized(MaxParserCells)

NextParser ==
    \/ \E c \in ParserInputs(t.state) : Feed(c)
    \/ \E d \in Sizes(MaxParserCells) \cup {<<0, 1>>} : DoResize(d[1], d[2])

SpecParser == InitParser /\ [][NextParser]_vars

\* SpecStream: streams written to a fresh engine in chunks.  A stream is an
\* optional CSI sequence followed by text and line feeds; Write is called
\* with consecutive chunks of it, cut at any position.
chTwo == 50

chLowerH == 104

CRLFSeq == <<ESC, chLBracket, chTwo, chZero, chLowerH>>

Preludes == {<<>>, CRLFSeq, <<ESC, chLBracket, chQuestion, chZero, chLowerC>>}

TextBytes == {chE, chH, LF}

IsPrefix(a, b) == Len(a) <= Len(b) /\ SubSeq(b, 1, Len(a)) = a

\* f is the beginning of a stream
IsStream(f) ==
    \E pre \in Preludes :
       \/ IsPrefix(f, pre)
       \/ /\ IsPrefix(pre, f)
          /\ Len(f) - Len(pre) <= MaxText
          /\ \A i \in Len(pre) + 1 .. Len(f) : f[i] \in TextBytes

StreamBytes == TextBytes \cup {ESC, chLBracket, chTwo, chZero, chLowerH,
                               chQuestion, chLowerC}

RECURSIVE Extensions(_, _)
\* the streams that continue f by n more bytes
Extensions(f, n) ==
    IF n = 0 THEN {f}
    ELSE UNION {Extensions(Append(f, b), n - 1) :
                   b \in {x \in StreamBytes : IsStream(Append(f, x))}}

\* the chunks a Write may be called with once f has been written
Chunks(f) ==
    UNION {{SubSeq(g, Len(f) + 1, Len(g)) : g \in Extensions(f, n)} :
              n \in 1 .. MaxChunk}

TextSizes == (1 .. MaxTextCols) \X (1 .. MaxRows)

InitStream ==
    /\ \E d \in TextSizes : t = New(d[1], d[2])
    /\ last = [op |-> "New", a |-> 0, b |-> 0, st |-> "parse",
               cols |-> 0, rows |-> 0]
    /\ fed = <<>>
    /\ mu = Unlocked
    /\ proc = NoCallers

\* one call of VT.Write
WriteChunk(p) ==
    /\ ~t.panic
    /\ t' = Write(t, p).t
    /\ fed' = fed \o p
    /\ UNCHANGED <<mu, proc>>
    /\ last' = [op |-> "Write", a |-> p, b |-> Write(t, p).n, st |-> t.state,
                cols |-> t.cols, rows |-> t.rows]

NextStream == \E p \in Chunks(fed) : WriteChunk(p)

SpecStream == InitStream /\ [][NextStream]_vars

\* SpecCsiParse: csiEscape.parse on its own, as TestCSIParse drives it:
\* reset, a body stored in buf, parse; one accumulator is reused for every
\* body.
RECURSIVE itoa(_)
\* the decimal text of n >= 0
itoa(n) ==
    IF n < 10 THEN <<chZero + n>> ELSE Append(itoa(n \div 10), chZero + (n % 10))

\* a decimal field above the largest int: twenty nines
HugeText == [i \in 1 .. MaxIntDigits + 1 |-> chNine]

\* the fields a body is built from: the text and, where an int holds it, the
\* value
FieldOf(n) == [txt |-> itoa(n), fits |-> TRUE, val |-> n]

HugeField == [txt |-> HugeText, fits |-> FALSE, val |-> 0]

FieldValues == {0, 2, 25, 31, 48}

Fields == {FieldOf(n) : n \in FieldValues} \cup {HugeField}

FinalBytes == {chLowerC, chLowerH, chM}

RECURSIVE JoinFields(_)
JoinFields(fs) ==
    IF fs = <<>> THEN <<>>
    ELSE IF Len(fs) = 1 THEN fs[1].txt
    ELSE fs[1].txt \o <<chSemi>> \o JoinFields(Tail(fs))

\* the body: optional '?', the fields separated by ';', the final byte
Body(q, fs, final) ==
    (IF q THEN <<chQuestion>> ELSE <<>>) \o JoinFields(fs) \o <<final>>

InitCsiParse ==
    /\ t = New(1, 1)
    /\ last = [op |-> "New", a |-> <<>>, b |-> <<>>, st |-> "parse",
               cols |-> 0, rows |-> 0]
    /\ fed = <<>>
    /\ mu = Unlocked
    /\ proc = NoCallers

\* csi.reset(); csi.buf = body; csi.parse()
ParseBody(q, fs, final) ==
    LET r == csiParse([csiReset(t.csi) EXCEPT !.buf = Body(q, fs, final)])
    IN /\ ~t.panic
       /\ t' = [t EXCEPT !.csi = r.csi, !.panic = r.panic]
       /\ last' = [op |-> "csiParse", a |-> Body(q, fs, final), b |-> fs,
                   st |-> t.state, cols |-> t.cols, rows |-> t.rows]
       /\ UNCHANGED <<fed, mu, proc>>

NextCsiParse ==
    \E q \in BOOLEAN, final \in FinalBytes, k \in 0 .. MaxFields :
        \E fs \in [1 .. k -> Fields] : ParseBody(q, fs, final)

SpecCsiParse == InitCsiParse /\ [][NextCsiParse]_vars

\* SpecLong: sequences that are not ended for a long time.  After ESC [ the
\* stream is digits, with ESC to leave the CSI sequence; after ESC ] it is
\* line feeds, ended by BEL or by ESC \.
LongInputs(st) ==
    IF st = "parse" THEN {ESC, chE}
    ELSE IF st = "parseEsc" THEN {chLBracket, chRBracket}
    ELSE IF st = "parseEscCSI" THEN {chZero, ESC}
    ELSE IF st = "parseEscStr" THEN {LF, BEL, ESC}
    ELSE {chBackslash}

InitLong ==
    /\ t = New(1, 1)
    /\ last = [op |-> "New", a |-> 0, b |-> 0, st |-> "parse",
               cols |-> 0, rows |-> 0]
    /\ fed = <<>>
    /\ mu = Unlocked
    /\ proc = NoCallers

FeedLong(c) ==
    /\ ~t.panic
    /\ WithinCaps(t, c, CsiLimit + MaxOver, StrLimit + MaxOver)
    /\ t' = put(t, c)
    /\ last' = [op |-> "put", a |-> c, b |-> 0, st |-> t.state,
                cols |-> t.cols, rows |-> t.rows]
    /\ UNCHANGED <<fed, mu, proc>>

NextLong == \E c \in LongInputs(t.state) : FeedLong(c)

SpecLong == InitLong /\ [][NextLong]_vars

\* SpecUtf8: a stream of UTF-8 encoded code points written in chunks cut at
\* any byte.  The caller keeps the bytes a Write did not count and hands them
\* in again in front of the next bytes; last.b is the number of bytes of the
\* stream counted so far.
Encodings ==
    {<<chE>>, <<195, 169>>, <<226, 130, 172>>, <<240, 159, 152, 128>>}

RECURSIVE Flatten(_)
Flatten(ss) == IF ss = <<>> THEN <<>> ELSE Head(ss) \o Flatten(Tail(ss))

Utf8Streams == {Flatten(ss) : ss \in [1 .. MaxRunes -> Encodings]}

\* the chunks that continue the stream f
Utf8Chunks(f) ==
    UNION {{SubSeq(g, Len(f) + 1, Len(f) + n) :
               n \in 1 .. min(MaxChunk, Len(g) - Len(f))} :
              g \in {h \in Utf8Streams : IsPrefix(f, h)}}

InitUtf8 ==
    /\ t = New(MaxCols, 1)
    /\ last = [op |-> "New", a |-> <<>>, b |-> 0, st |-> "parse",
               cols |-> 0, rows |-> 0]
    /\ fed = <<>>
    /\ mu = Unlocked
    /\ proc = NoCallers

\* one call of VT.Write with the uncounted bytes followed by q
WriteUtf8(q) ==
    LET p == SubSeq(fed, last.b + 1, Len(fed)) \o q
        r == Write(t, p)
    IN /\ ~t.panic
       /\ last.b + r.n <= Len(fed) + Len(q)
       /\ t' = r.t
       /\ fed' = fed \o q
       /\ UNCHANGED <<mu, proc>>
       /\ last' = [op |-> "Write", a |-> p, b |-> last.b + r.n,
                   st |-> t.state, cols |-> t.cols, rows |-> t.rows]

NextUtf8 == \E q \in Utf8Chunks(fed) : WriteUtf8(q)

SpecUtf8 == InitUtf8 /\ [][NextUtf8]_vars

\* SpecModes: the screen with the mode operations.  The CSI dispatcher of
\* the parser calls none of them (handleCSI), so setMode and swapScreen are
\* steps of their own here, next to fed code points and Resize.  last.snap
\* holds the engine as it was when the run of steps named by last.tag began:
\* "alt" after a set of mode 1049 on the primary screen, "text" while text is
\* written after it, "back" after the reset of mode 1049 that follows the
\* text; "swap1" and "swap2" for one and two swaps in a row.
NoRun == [tag |-> "", snap |-> {}]

ModesInputs(st) ==
    IF st = "parse" THEN {chE, LF, ESC} ELSE {chLowerC, chSeven}

AltModes == {47, 1047, 1048, 1049}

\* the private modes of mouse reporting, and the bit each stands for
MouseModes == {9, 1000, 1002, 1003}

MouseBit(a) ==
    IF a = 9 THEN ModeMouseX10
    ELSE IF a = 1000 THEN ModeMouseButton
    ELSE IF a = 1002 THEN ModeMouseMotion
    ELSE ModeMouseMany

InitModes ==
    /\ \E d \in Sizes(MaxParserCells) : t = New(d[1], d[2])
    /\ last = [op |-> "New", a |-> <<>>, tag |-> "", snap |-> {}]
    /\ fed = <<>>
    /\ mu = Unlocked
    /\ proc = NoCallers

\* a code point fed; text keeps a run that began with mode 1049 going
FeedModes(c) ==
    LET text == /\ t.state = "parse"
                /\ ~isControlCode(c)
                /\ last.tag \in {"alt", "text"}
    IN /\ ~t.panic
       /\ t' = put(t, c)
       /\ last' = [op |-> "put", a |-> <<c>>,
                   tag |-> IF text THEN "text" ELSE "",
                   snap |-> IF text THEN last.snap ELSE {}]
       /\ UNCHANGED <<fed, mu, proc>>

\* t.setMode(priv, set, []int{a})
DoSetMode(priv, set, a) ==
    LET begin == priv /\ set /\ a = 1049 /\ ~HasBit(t.mode, ModeAltScreen)
        end == priv /\ ~set /\ a = 1049 /\ last.tag = "text"
        mouse == priv /\ a \in MouseModes
    IN /\ ~t.panic
       /\ t' = setMode(t, priv, set, <<a>>)
       /\ last' = [op |-> "setMode", a |-> <<priv, set, a>>,
                   tag |-> IF begin THEN "alt" ELSE IF end THEN "back"
                           ELSE IF mouse THEN "mouse" ELSE "",
                   snap |-> IF begin \/ mouse THEN {t}
                            ELSE IF end THEN last.snap ELSE {}]
       /\ UNCHANGED <<fed, mu, proc>>

\* t.swapScreen()
DoSwapScreen ==
    LET second == last.tag = "swap1"
    IN /\ ~t.panic
       /\ t' = swapScreen(t)
       /\ last' = [op |-> "swapScreen", a |-> <<>>,
                   tag |-> IF second THEN "swap2" ELSE "swap1",
                   snap |-> IF second THEN last.snap ELSE {t}]
       /\ UNCHANGED <<fed, mu, proc>>

NextModes ==
    \/ \E c \in ModesInputs(t.state) : FeedModes(c)
    \/ \E set \in BOOLEAN, a \in AltModes : DoSetMode(TRUE, set, a)
    \/ DoSwapScreen

SpecModes == InitModes /\ [][NextModes]_vars

\* Mouse reporting: the mouse modes among other mode changes and the reset
\* (ESC c)
OtherModes == {<<TRUE, 1006>>, <<FALSE, 4>>}

NextMouse ==
    \/ \E c \in (IF t.state = "parse" THEN {ESC} ELSE {chLowerC}) : FeedModes(c)
    \/ \E set \in BOOLEAN, a \in MouseModes : DoSetMode(TRUE, set, a)
    \/ \E set \in BOOLEAN, m \in OtherModes : DoSetMode(m[1], set, m[2])

SpecMouse == InitModes /\ [][NextMouse]_vars

\* SpecResize: Resize of a screen that holds text in two renditions on both
\* grids.  setAttr and swapScreen are steps of their own, as in SpecModes.
ResizeAttrs == {<<7>>}

FeedResize(c) ==
    /\ ~t.panic
    /\ t' = put(t, c)
    /\ last' = [op |-> "put", a |-> c, b |-> 0, st |-> t.state,
                cols |-> t.cols, rows |-> t.rows]
    /\ UNCHANGED <<fed, mu, proc>>

\* t.setAttr(attr)
DoSetAttr(attr) ==
    /\ ~t.panic
    /\ t' = setAttr(t, attr)
    /\ last' = [op |-> "setAttr", a |-> attr, b |-> t.cur.attr, st |-> t.state,
                cols |-> t.cols, rows |-> t.rows]
    /\ UNCHANGED <<fed, mu, proc>>

DoSwapResize ==
    /\ ~t.panic
    /\ t' = swapScreen(t)
    /\ last' = [op |-> "swapScreen", a |-> 0, b |-> 0, st |-> t.state,
                cols |-> t.cols, rows |-> t.rows]
    /\ UNCHANGED <<fed, mu, proc>>

NextResize ==
    \/ \E c \in {chE, LF} : FeedResize(c)
    \/ \E attr \in ResizeAttrs : DoSetAttr(attr)
    \/ DoSwapResize
    \/ \E d \in Sizes(MaxParserCells) \cup {<<0, 1>>, <<1, 0>>} : DoResize(d[1], d[2])

SpecResize == InitParser /\ [][NextResize]_vars

\* SpecSgr: setAttr with parameter lists that reach every kind of case of
\* its switch, interleaved with the selection of the graphics charset.
SgrLists ==
    {<<>>, <<0>>, <<1>>, <<4>>, <<7>>, <<22>>, <<31>>, <<39>>, <<44>>, <<95>>,
     <<105>>, <<1, 4>>, <<38, 5, 2>>, <<48, 5, 3>>, <<38, 5, 300>>, <<38, 2>>}

InitSgr ==
    /\ t = New(1, 1)
    /\ last = [op |-> "New", a |-> <<>>, b |-> t.cur.attr, st |-> "parse",
               cols |-> 0, rows |-> 0]
    /\ fed = <<>>
    /\ mu = Unlocked
    /\ proc = NoCallers

\* the bytes of ESC ( 0 and ESC ( B, which select the charset
SgrInputs(st) ==
    IF st = "parse" THEN {ESC}
    ELSE IF st = "parseEsc" THEN {chLParen}
    ELSE {chZero, chB}

NextSgr ==
    \/ \E attr \in SgrLists : DoSetAttr(attr)
    \/ \E c \in SgrInputs(t.state) : FeedResize(c)

SpecSgr == InitSgr /\ [][NextSgr]_vars

\* SpecColour: an SGR sequence that selects an indexed colour, followed by
\* one printable character, fed byte by byte to a fresh engine.
chLowerM == 109

ColourValues == {0, 7, 200, 255}

\* ESC [ k ; 5 ; n m E with k = 38 or 48
ColourSeq(k, n) ==
    <<ESC, chLBracket>> \o itoa(k) \o <<chSemi, chFive, chSemi>> \o itoa(n)
        \o <<chLowerM, chE>>

ColourStreams == {ColourSeq(k, n) : k \in {38, 48}, n \in ColourValues}

InitColour ==
    /\ \E d \in Sizes(MaxParserCells) : t = New(d[1], d[2])
    /\ last = [op |-> "New", a |-> 0, b |-> 0, st |-> "parse",
               cols |-> 0, rows |-> 0]
    /\ fed = <<>>
    /\ mu = Unlocked
    /\ proc = NoCallers

\* the next byte of one of the streams
FeedColour(c) ==
    /\ ~t.panic
    /\ \E f \in ColourStreams : IsPrefix(Append(fed, c), f)
    /\ t' = put(t, c)
    /\ fed' = Append(fed, c)
    /\ UNCHANGED <<mu, proc>>
    /\ last' = [op |-> "put", a |-> c, b |-> 0, st |-> t.state,
                cols |-> t.cols, rows |-> t.rows]

NextColour == \E c \in 0 .. 127 : FeedColour(c)

SpecColour == InitColour /\ [][NextColour]_vars

\* SpecLock: one feeder (Write or ReadFrom), one resizer and MaxReaders
\* readers (Cell, Cursor, CursorHidden, Mode) calling one engine.  put and
\* Resize assign the fields of the engine one after the other: each is two
\* steps here, and proc.mid names the caller that is between them.  The
\* stream is ASCII, so ReadRune takes one byte and fills the buffer only
\* when it is empty.
Readers == 1 .. MaxReaders

\* lockn > 1024 in ReadFrom
LockBatch == 1024

\* buf.Buffered() < 4 in ReadFrom
RuneMax == 4

IdleCallers ==
    [feeder |-> "idle", left |-> 0, buffered |-> 0, lockn |-> 0, c |-> 0,
     resizer |-> "idle", size |-> <<0, 0>>, mid |-> "",
     readers |-> [r \in Readers |-> "idle"]]

\* t.mu.Lock() can return
CanLock(m) == m.w = "" /\ m.r = 0

\* t.mu.RLock() can return
CanRLock(m) == m.w = ""

\* if lockn == 0 { t.mu.Lock() } with the test left out
needLockNever(lockn) == FALSE

\* if lockn == 0 { t.mu.Lock() }
needLock(lockn) == lockn = 0

\* the lock released after every code point
releaseAlways(buffered, lockn) == TRUE

\* if buf.Buffered() < 4 || lockn > 1024 { t.mu.Unlock(); lockn = 0 }
releaseNow(buffered, lockn) == buffered < RuneMax \/ lockn > LockBatch

InitLock ==
    /\ t = New(1, 1)
    /\ last = [op |-> "New", a |-> "", n |-> 0]
    /\ fed = <<>>
    /\ mu = Unlocked
    /\ proc = IdleCallers

\* the step taken, its caller, and lockn as the step found it
Did(op, who) == last' = [op |-> op, a |-> who, n |-> proc.lockn]

\* Write(p), p holding n code points: t.mu.Lock()
WriteLock(n) ==
    /\ proc.feeder = "idle"
    /\ CanLock(mu)
    /\ mu' = [mu EXCEPT !.w = "feeder"]
    /\ proc' = [proc EXCEPT !.feeder = "write", !.left = n]
    /\ Did("Write", "feeder")
    /\ UNCHANGED <<t, fed>>

\* Write: r.ReadRune() returns the code point c and t.put(c) begins
WritePutBegin(c) ==
    /\ proc.feeder = "write"
    /\ proc.left > 0
    /\ proc' = [proc EXCEPT !.feeder = "writePut", !.left = @ - 1, !.c = c,
                            !.mid = "feeder"]
    /\ Did("putBegin", "feeder")
    /\ UNCHANGED <<t, fed, mu>>

\* Write: t.put(c) returns
WritePutEnd ==
    /\ proc.feeder = "writePut"
    /\ t' = put(t, proc.c)
    /\ proc' = [proc EXCEPT !.feeder = "write", !.mid = ""]
    /\ Did("putEnd", "feeder")
    /\ UNCHANGED <<fed, mu>>

\* Write: r.ReadRune() returns io.EOF; the deferred t.mu.Unlock()
WriteReturn ==
    /\ proc.feeder = "write"
    /\ proc.left = 0
    /\ mu' = [mu EXCEPT !.w = ""]
    /\ proc' = [proc EXCEPT !.feeder = "idle"]
    /\ Did("return", "feeder")
    /\ UNCHANGED <<t, fed>>

\* ReadFrom(r), r delivering n code points in all
ReadFromCall(n) ==
    /\ proc.feeder = "idle"
    /\ proc' = [proc EXCEPT !.feeder = "read", !.left = n, !.buffered = 0,
                            !.lockn = 0]
    /\ Did("ReadFrom", "feeder")
    /\ UNCHANGED <<t, fed, mu>>

\* ReadFrom: buf.ReadRune() returns a code point c, after a Read of fill
\* bytes from r when the buffer is empty
ReadFromRune(c, fill) ==
    /\ proc.feeder = "read"
    /\ proc.left > 0
    /\ fill <= proc.left
    /\ LET got == IF proc.buffered = 0 THEN fill ELSE proc.buffered
       IN proc' = [proc EXCEPT !.feeder = "readLock", !.left = @ - 1,
                               !.buffered = got - 1, !.c = c]
    /\ Did("ReadRune", "feeder")
    /\ UNCHANGED <<t, fed, mu>>

\* ReadFrom: if lockn == 0 { t.mu.Lock() }, and t.put(c) begins
\* an invalid byte: ReadRune gives (RuneError, 1) and the loop goes on to
\* the next ReadRune (`continue`), past the put and past the unlock test
ReadFromSkip(fill) ==
    /\ proc.feeder = "read"
    /\ proc.left > 0
    /\ fill <= proc.left
    /\ LET got == IF proc.buffered = 0 THEN fill ELSE proc.buffered
       IN proc' = [proc EXCEPT !.left = @ - 1, !.buffered = got - 1,
                               !.c = RuneError]
    /\ Did("skip", "feeder")
    /\ UNCHANGED <<t, fed, mu>>

ReadFromPutBegin ==
    /\ proc.feeder = "readLock"
    /\ needLock(proc.lockn) => CanLock(mu)
    /\ mu' = IF needLock(proc.lockn) THEN [mu EXCEPT !.w = "feeder"] ELSE mu
    /\ proc' = [proc EXCEPT !.feeder = "readPut", !.mid = "feeder"]
    /\ Did("putBegin", "feeder")
    /\ UNCHANGED <<t, fed>>

\* ReadFrom: t.put(c) returns, lockn++, and the lock is released when less
\* than a rune may be buffered or after LockBatch code points
ReadFromPutEnd ==
    /\ proc.feeder = "readPut"
    /\ t' = put(t, proc.c)
    /\ LET release == releaseNow(proc.buffered, proc.lockn + 1)
       IN /\ mu' = IF release THEN [mu EXCEPT !.w = ""] ELSE mu
          /\ proc' = [proc EXCEPT !.feeder = "read", !.mid = "",
                                  !.lockn = IF release THEN 0 ELSE @ + 1]
    /\ Did("putEnd", "feeder")
    /\ UNCHANGED fed

\* ReadFrom: buf.ReadRune() returns io.EOF; the deferred function unlocks
\* if lockn > 0
ReadFromReturn ==
    /\ proc.feeder = "read"
    /\ proc.left = 0
    /\ mu' = IF proc.lockn > 0 THEN [mu EXCEPT !.w = ""] ELSE mu
    /\ proc' = [proc EXCEPT !.feeder = "idle", !.lockn = 0, !.buffered = 0]
    /\ Did("return", "feeder")
    /\ UNCHANGED <<t, fed>>

\* Resize(cols, rows): t.mu.Lock(), and the assignments begin
ResizeLock(cols, rows) ==
    /\ proc.resizer = "idle"
    /\ CanLock(mu)
    /\ mu' = [mu EXCEPT !.w = "resizer"]
    /\ proc' = [proc EXCEPT !.resizer = "resize", !.size = <<cols, rows>>,
                            !.mid = "resizer"]
    /\ Did("Resize", "resizer")
    /\ UNCHANGED <<t, fed>>

\* Resize returns; the deferred t.mu.Unlock()
ResizeReturn ==
    /\ proc.resizer = "resize"
    /\ t' = Resize(t, proc.size[1], proc.size[2])
    /\ mu' = [mu EXCEPT !.w = ""]
    /\ proc' = [proc EXCEPT !.resizer = "idle", !.mid = ""]
    /\ Did("return", "resizer")
    /\ UNCHANGED fed

\* Cell, Cursor, CursorHidden, Mode: t.mu.RLock()
QueryLock(r) ==
    /\ proc.readers[r] = "idle"
    /\ CanRLock(mu)
    /\ mu' = [mu EXCEPT !.r = @ + 1]
    /\ proc' = [proc EXCEPT !.readers[r] = "reading"]
    /\ Did("query", r)
    /\ UNCHANGED <<t, fed>>

\* the query has read its fields and returns; the deferred t.mu.RUnlock()
QueryReturn(r) ==
    /\ proc.readers[r] = "reading"
    /\ mu' = [mu EXCEPT !.r = @ - 1]
    /\ proc' = [proc EXCEPT !.readers[r] = "idle"]
    /\ Did("return", r)
    /\ UNCHANGED <<t, fed>>

NextLock ==
    \/ \E n \in 1 .. MaxFeed : WriteLock(n)
    \/ \E c \in {chE, LF} : WritePutBegin(c)
    \/ WritePutEnd
    \/ WriteReturn
    \/ \E n \in 1 .. MaxFeed : ReadFromCall(n)
    \/ \E c \in {chE, LF}, fill \in 1 .. MaxFill : ReadFromRune(c, fill)
    \/ \E fill \in 1 .. MaxFill : ReadFromSkip(fill)
    \/ ReadFromPutBegin
    \/ ReadFromPutEnd
    \/ ReadFromReturn
    \/ \E d \in Sizes(MaxParserCells) : ResizeLock(d[1], d[2])
    \/ ResizeReturn
    \/ \E r \in Readers : QueryLock(r)
    \/ \E r \in Readers : QueryReturn(r)

SpecLock == InitLock /\ [][NextLock]_vars

\* SpecBulk: one ReadFrom on its own, fed up to MaxBulk code points that
\* its reader delivers one at a time, a rune's worth at a time or all at
\* once.  The code points are 'E' and ESC E (NEL).
BulkInputs(st) == IF st = "parse" THEN {chE, ESC} ELSE {chE}

BulkSizes == {1, RuneMax, MaxBulk}

NextBulk ==
    \/ \E n \in BulkSizes : ReadFromCall(n)
    \/ \E c \in BulkInputs(t.state), fill \in BulkSizes : ReadFromRune(c, fill)
    \/ ReadFromPutBegin
    \/ ReadFromPutEnd
    \/ ReadFromReturn

SpecBulk == InitLock /\ [][NextBulk]_vars

\* SpecScroll: text, line feeds and the index escapes on screens of one
\* column with a scroll region.  The CSI dispatcher calls nothing
\* (handleCSI), so setScroll and the scroll operations are steps of their
\* own.
ScrollSizes == {<<1, r>> : r \in 1 .. MaxScrollRows}

ScrollInputs(st) ==
    IF st = "parse" THEN {chE, LF, VT, FF, ESC} ELSE {chD, chE, chM}

InitScroll ==
    /\ \E d \in ScrollSizes : t = New(d[1], d[2])
    /\ last = [op |-> "New", a |-> 0, b |-> 0, st |-> "parse",
               cols |-> 0, rows |-> 0]
    /\ fed = <<>>
    /\ mu = Unlocked
    /\ proc = NoCallers

Called(op, a, b) ==
    /\ last' = [op |-> op, a |-> a, b |-> b, st |-> t.state,
                cols |-> t.cols, rows |-> t.rows]
    /\ UNCHANGED <<fed, mu, proc>>

\* t.setScroll(top, bottom)
DoSetScroll(top, bottom) ==
    /\ ~t.panic
    /\ t' = setScroll(t, top, bottom)
    /\ Called("setScroll", top, bottom)

\* t.setMode(true, set, []int{7})
DoSetWrap(set) ==
    /\ ~t.panic
    /\ t' = setMode(t, TRUE, set, <<7>>)
    /\ Called("setMode", set, 7)

\* t.scrollUp(orig, n) and t.scrollDown(orig, n), as their callers call
\* them: orig inside the region
DoScrollUp(orig, n) ==
    /\ ~t.panic
    /\ t.top <= orig /\ orig <= t.bottom
    /\ t' = scrollUp(t, orig, n)
    /\ Called("scrollUp", orig, n)

DoScrollDown(orig, n) ==
    /\ ~t.panic
    /\ t.top <= orig /\ orig <= t.bottom
    /\ t' = scrollDown(t, orig, n)
    /\ Called("scrollDown", orig, n)

\* t.insertBlankLines(n)
DoInsertBlankLines(n) ==
    /\ ~t.panic
    /\ t' = insertBlankLines(t, n)
    /\ Called("insertBlankLines", t.cur.y, n)

\* t.deleteLines(n)
DoDeleteLines(n) ==
    /\ ~t.panic
    /\ t' = deleteLines(t, n)
    /\ Called("deleteLines", t.cur.y, n)

NextScroll ==
    \/ \E c \in {chE, LF} : FeedResize(c)
    \/ \E top, bottom \in 0 .. MaxScrollRows - 1 : DoSetScroll(top, bottom)
    \/ \E orig \in 0 .. MaxScrollRows - 1, n \in 1 .. MaxScrollBy :
          \/ DoScrollUp(orig, n)
          \/ DoScrollDown(orig, n)
    \/ \E n \in 1 .. MaxScrollBy : DoInsertBlankLines(n) \/ DoDeleteLines(n)

SpecScroll == InitScroll /\ [][NextScroll]_vars

\* Newlines and index escapes under every scroll region
NextNewline ==
    \/ \E c \in ScrollInputs(t.state) : FeedResize(c)
    \/ \E top, bottom \in 0 .. MaxScrollRows - 1 : DoSetScroll(top, bottom)

SpecNewline == InitScroll /\ [][NextNewline]_vars

\* SpecWrap: text and line feeds with the auto-wrap mode set and reset and
\* a scroll region.
NextWrap ==
    \/ \E c \in {chE, chH, LF} : FeedResize(c)
    \/ \E top, bottom \in 0 .. MaxRows - 1 : DoSetScroll(top, bottom)
    \/ \E set \in BOOLEAN : DoSetWrap(set)

SpecWrap == Init /\ [][NextWrap]_vars

\* ------------------------------------------------------------------------
\* Specification: a renderer that clears the dirty flags between the feeds
\* ------------------------------------------------------------------------

\* seen holds the rows of the active grid as they were when the flags were
\* last cleared (<<>> before the first clearing)
InitDirty ==
    /\ \E d \in Sizes(MaxParserCells) : t = New(d[1], d[2])
    /\ last = [op |-> "New", a |-> 0, seen |-> <<>>]
    /\ fed = <<>>
    /\ mu = Unlocked
    /\ proc = NoCallers

\* the consumer of VT.dirty: for y := range t.dirty { t.dirty[y] = false }
ClearDirty ==
    /\ ~t.panic
    /\ t' = [t EXCEPT !.dirty = [i \in 1 .. Len(t.dirty) |-> FALSE]]
    /\ last' = [op |-> "clearDirty", a |-> 0, seen |-> t.lines]
    /\ UNCHANGED <<fed, mu, proc>>

FeedDirty(c) ==
    /\ ~t.panic
    /\ t' = put(t, c)
    /\ last' = [op |-> "put", a |-> c, seen |-> last.seen]
    /\ UNCHANGED <<fed, mu, proc>>

NextDirty ==
    \/ \E c \in Inputs(t.state) : FeedDirty(c)
    \/ ClearDirty

SpecDirty == InitDirty /\ [][NextDirty]_vars

\* ------------------------------------------------------------------------
\* Specification: tab stops on screens of one row that are resized in width
\* ------------------------------------------------------------------------

\* the widths: the last column of none of them is a multiple of tabspaces,
\* so that ESC H in the last column sets a stop of its own
TabWidths == {2, tabspaces + 2, MaxTabCols}

InitTabs ==
    /\ \E c \in TabWidths : t = New(c, 1)
    /\ last = [op |-> "New", a |-> 0, b |-> 0, st |-> "parse",
               cols |-> 0, rows |-> 0]
    /\ fed = <<>>
    /\ mu = Unlocked
    /\ proc = NoCallers

NextTabs ==
    \/ \E c \in (IF t.state = "parse" THEN {HT, ESC} ELSE {chH}) : FeedResize(c)
    \/ \E c \in TabWidths : DoResize(c, 1)

SpecTabs == InitTabs /\ [][NextTabs]_vars

\* ------------------------------------------------------------------------
\* Specification: the alignment test under the attributes the parser and
\* setAttr give the cursor
\* ------------------------------------------------------------------------

AlignInputs(st) ==
    IF st = "parse" THEN {ESC, SOH, LF, chA}
    ELSE IF st = "parseEsc" THEN {chHash, chLParen}
    ELSE IF st = "parseEscAltCharset" THEN {chZero, chB}
    ELSE {chEight, chE, LF, ESC}

NextAlign ==
    \/ \E c \in AlignInputs(t.state) : FeedResize(c)
    \/ \E attr \in {<<0>>, <<1>>, <<31>>} : DoSetAttr(attr)

SpecAlign == InitSgr /\ [][NextAlign]_vars

\* ------------------------------------------------------------------------
\* Specification: csiEscape.parse on fields that are no plain decimals
\* ------------------------------------------------------------------------

\* "2", "-5", "+5", "" and "5 " (an intermediate byte after the digit)
OddFields ==
    {FieldOf(2),
     [txt |-> <<chMinus, chFive>>, fits |-> FALSE, val |-> 0],
     [txt |-> <<chPlus, chFive>>, fits |-> FALSE, val |-> 0],
     [txt |-> <<>>, fits |-> FALSE, val |-> 0],
     [txt |-> <<chFive, SPACE>>, fits |-> FALSE, val |-> 0]}

NextOddFields ==
    \E q \in BOOLEAN, final \in FinalBytes, k \in 0 .. MaxFields :
        \E fs \in [1 .. k -> OddFields] : ParseBody(q, fs, final)

SpecOddFields == InitCsiParse /\ [][NextOddFields]_vars

\* ------------------------------------------------------------------------
\* Specification: text, scrolls, line insertion, the alignment test and the
\* reset on either screen
\* ------------------------------------------------------------------------

AltInputs(st) ==
    IF st = "parse" THEN {chE, LF, ESC}
    ELSE IF st = "parseEsc" THEN {chHash, chLowerC}
    ELSE {chEight}

NextAlt ==
    \/ \E c \in AltInputs(t.state) : FeedResize(c)
    \/ DoSwapResize
    \/ DoInsertBlankLines(1)
    \/ DoDeleteLines(1)

SpecAlt == InitParser /\ [][NextAlt]_vars

\* ------------------------------------------------------------------------
\* Specification: the grid primitives called with counts from zero up
\* ------------------------------------------------------------------------

\* t.insertBlanks(n)
DoInsertBlanks(n) ==
    /\ ~t.panic
    /\ t' = insertBlanks(t, n)
    /\ Called("insertBlanks", t.cur.x, n)

\* t.deleteChars(n)
DoDeleteChars(n) ==
    /\ ~t.panic
    /\ t' = deleteChars(t, n)
    /\ Called("deleteChars", t.cur.x, n)

NextCounts ==
    \/ \E c \in {chE, LF, BS} : FeedResize(c)
    \/ \E n \in 0 .. 1 : DoInsertBlanks(n) \/ DoDeleteChars(n)
    \/ \E orig \in 0 .. MaxRows - 1, n \in 0 .. 1 :
          DoScrollUp(orig, n) \/ DoScrollDown(orig, n)

SpecCounts == InitParser /\ [][NextCounts]_vars

\* Oversized sequences and tab stops, with resizes in between: every parser
\* state that handles control codes takes one, the screen takes text, tabs,
\* tab stops and resets, and the accumulators are filled to their limits by
\* runs of one byte

\* the length of a run, the p of one call of Write: an eighth of the limit
RunLen == CsiLimit \div 8

\* p of Write: n copies of the byte c
Run(c, n) == [i \in 1 .. n |-> c]

\* the accumulator holds whole runs and is not full
MidRun(buf, limit) == Len(buf) % RunLen = 0 /\ Len(buf) < limit

\* the code points fed one at a time; a single byte goes to the CSI buffer
\* while it is empty or at its limit, and a string is ended empty or full
AbortInputs(s) ==
    IF s.state = "parse" THEN {ESC, HT, chE}
    ELSE IF s.state = "parseEsc"
    THEN {HT, chLBracket, chRBracket, chLParen, chHash, chH, chLowerC,
          chBackslash}
    ELSE IF s.state = "parseEscCSI"
    THEN {ESC, HT}
         \cup (IF s.csi.buf = <<>> THEN {chQuestion, chLowerC}
               ELSE IF s.csi.buf = <<chQuestion>> THEN {chLowerC}
               ELSE IF Len(s.csi.buf) >= CsiLimit THEN {chZero} ELSE {})
    ELSE IF s.state = "parseEscStr"
    THEN IF s.str.buf = <<>> THEN {ESC, BEL}
         ELSE IF Len(s.str.buf) >= StrLimit THEN {ESC, BEL, chZero} ELSE {}
    ELSE IF s.state = "parseEscStrEnd" THEN {HT, chBackslash}
    ELSE {HT, chEight}

\* VT.Write(p) with a run of zeros, inside a CSI or a string sequence
WriteRun ==
    /\ ~t.panic
    /\ \/ t.state = "parseEscCSI" /\ MidRun(t.csi.buf, CsiLimit)
       \/ t.state = "parseEscStr" /\ MidRun(t.str.buf, StrLimit)
    /\ t' = Write(t, Run(chZero, RunLen)).t
    /\ last' = [op |-> "Write", a |-> chZero, b |-> RunLen,
                 st |-> t.state, cols |-> t.cols, rows |-> t.rows]
    /\ UNCHANGED <<fed, mu, proc>>

NextAbort ==
    \/ \E c \in AbortInputs(t) : FeedLong(c)
    \/ WriteRun
    \/ \E d \in Sizes(MaxParserCells) : DoResize(d[1], d[2])

SpecAbort == InitParser /\ [][NextAbort]_vars

\* ------------------------------------------------------------------------
\* Properties
\* ------------------------------------------------------------------------

Origin(s) == HasBit(s.cur.state, cursorOrigin)

\* C1: after every fed code point and every resize the cursor lies inside
\* the screen, 0 <= cur.x < cols and 0 <= cur.y < rows, and inside the
\* scroll region when origin mode is set.
C1_CursorInBounds ==
    /\ 0 <= t.cur.x /\ t.cur.x < t.cols
    /\ 0 <= t.cur.y /\ t.cur.y < t.rows
    /\ Origin(t) => t.top <= t.cur.y /\ t.cur.y <= t.bottom

\* the cursor has just been restored (ESC 8) on a screen that no longer
\* holds the saved position
C1_Witness ==
    /\ last.op = "put" /\ last.a = chEight /\ last.st = "parseEsc"
    /\ t.state = "parse"
    /\ t.curSaved.y >= t.rows \/ t.curSaved.x >= t.cols

\* C2: processing never aborts: for every stream (unknown escapes, malformed
\* and oversized CSI and string sequences, control codes in every parser
\* state) with resizes to positive sizes in between, no step indexes a grid
\* row, the dirty vector, the tab-stop vector or the CSI buffer out of range.
C2_NeverAborts == ~t.panic

\* the CSI buffer, filled to its limit by runs of zeros, has just taken a
\* byte past the limit and has been parsed, on a screen with a tab stop set
\* by ESC H, after a string sequence that filled the string buffer
C2_Witness ==
    /\ last.op = "put" /\ last.st = "parseEscCSI" /\ last.a = chZero
    /\ Len(t.csi.buf) > CsiLimit
    /\ t.csi.mode = chZero
    /\ Len(t.str.buf) = StrLimit
    /\ \E x \in 1 .. Len(t.tabs) : t.tabs[x]

\* C3: the primary and the alternate grid have exactly rows lines of
\* exactly cols cells each.
C3_GridShape ==
    /\ Len(t.lines) = t.rows
    /\ Len(t.altLines) = t.rows
    /\ \A i \in 1 .. t.rows :
          Len(t.lines[i]) = t.cols /\ Len(t.altLines[i]) = t.cols

\* a resize has just changed both dimensions of a screen holding text
C3_Witness ==
    /\ last.op = "Resize"
    /\ last.cols # t.cols /\ last.rows # t.rows
    /\ t.cols = last.a /\ t.rows = last.b
    /\ \E i \in 1 .. Len(t.lines) : \E j \in 1 .. Len(t.lines[i]) :
          t.lines[i][j].c = chE


IsPrintable(c) == c >= SPACE /\ c < DEL

AllPrintable(f) == \A i \in 1 .. Len(f) : IsPrintable(f[i])

\* C4: on a fresh engine, after n < cols printable ASCII characters the
\* cells of row 0 at columns 0 .. n-1 read back as those characters in order
\* and the cursor is at (n, 0).
C4_PlainChars ==
    (AllPrintable(fed) /\ Len(fed) < t.cols)
        => /\ \A i \in 0 .. Len(fed) - 1 : Cell(t, i, 0) = fed[i + 1]
           /\ t.cur.x = Len(fed)
           /\ t.cur.y = 0

C4_Witness ==
    /\ last.op = "Write"
    /\ AllPrintable(fed)
    /\ Len(fed) = 3
    /\ t.cols = 4
    /\ fed[1] # fed[2]
    /\ Cell(t, 2, 0) = fed[3]

\* the text of the stream after the CRLF sequence
AfterCRLF == SubSeq(fed, Len(CRLFSeq) + 1, Len(fed))

\* f is one printable character, a line feed, one printable character
IsTwoLines(f) ==
    /\ Len(f) = 3
    /\ IsPrintable(f[1])
    /\ f[2] = LF
    /\ IsPrintable(f[3])

\* C5: after ESC [ 2 0 h the CRLF mode is set and a line feed moves the
\* cursor to column 0 of the next row, so the text after the line feed is
\* stored from column 0 of that row; without the sequence the line feed
\* keeps the column.
C5_CRLFMode ==
    /\ (IsPrefix(CRLFSeq, fed) /\ t.rows >= 2 /\ t.cols >= 2
        /\ IsTwoLines(AfterCRLF))
           => /\ HasBit(t.mode, ModeCRLF)
              /\ Cell(t, 0, 0) = AfterCRLF[1]
              /\ Cell(t, 0, 1) = AfterCRLF[3]
    /\ (IsTwoLines(fed) /\ t.rows >= 2 /\ t.cols >= 2)
           => /\ Cell(t, 0, 0) = fed[1]
              /\ Cell(t, 1, 1) = fed[3]

\* C10: a stream written in chunks cut at any position leaves the engine
\* in the state one Write of the whole stream leaves it in.
C10_ChunkedWrite == t = Write(New(t.cols, t.rows), fed).t

C10_Witness ==
    /\ last.op = "Write"
    /\ last.st \in {"parseEsc", "parseEscCSI"}
    /\ IsPrefix(CRLFSeq, fed)
    /\ Len(fed) > Len(CRLFSeq) + 1
    /\ Len(last.a) < Len(fed) - 1
    /\ LF \in {fed[i] : i \in 1 .. Len(fed)}


AllFit(fs) == \A i \in 1 .. Len(fs) : fs[i].fits

\* C6 as stated: for a body of an optional '?', k >= 0 unsigned decimal
\* fields separated by ';' and a final byte, parse yields exactly the k
\* integers in order and the final byte; a field above the largest int is a
\* decimal field too.
C6_ParseAnyField ==
    last.op = "csiParse"
        => /\ Len(t.csi.args) = Len(last.b)
           /\ \A i \in 1 .. Len(last.b) :
                 last.b[i].fits => t.csi.args[i] = last.b[i].val
           /\ t.csi.mode = last.a[Len(last.a)]

\* C6 amended: the same for bodies whose fields all have a value an int
\* holds.
C6_Parse ==
    (last.op = "csiParse" /\ AllFit(last.b))
        => /\ t.csi.args = [i \in 1 .. Len(last.b) |-> last.b[i].val]
           /\ t.csi.mode = last.a[Len(last.a)]

C6_Witness ==
    /\ last.op = "csiParse"
    /\ last.a = <<chQuestion>> \o itoa(48) \o <<chSemi>> \o itoa(2) \o <<chLowerH>>
    /\ t.csi.args = <<48, 2>>
    /\ t.csi.mode = chLowerH

\* C7: the private flag of a parsed record is true exactly when the body
\* parsed begins with '?', whatever was parsed before.
C7_PrivateFromBody ==
    last.op = "csiParse" => (t.csi.priv <=> Head(last.a) = chQuestion)


\* the last code point fed completed the CSI sequence: it went to the
\* accumulator as a final byte or as the byte that filled the buffer
CsiCompleted ==
    /\ last.op = "put"
    /\ last.st = "parseEscCSI"
    /\ ~ccHandled(last.a)
    /\ \/ last.a % 256 >= FinalLo /\ last.a % 256 <= FinalHi
       \/ Len(t.csi.buf) >= CsiLimit

\* C8: when the CSI accumulator completes, the parser state is Ground
\* before the next code point is processed.
C8_GroundAfterCSI == CsiCompleted => t.state = "parse"

\* C9: in every reachable state the CSI buffer holds at most 256 bytes and
\* the STR buffer at most 256 code points.
C9_BuffersBounded ==
    /\ Len(t.csi.buf) <= CsiLimit
    /\ Len(t.str.buf) <= StrLimit


\* the number of bytes a sequence that starts with byte b takes
SeqLen(b) == IF b < 128 THEN 1 ELSE IF b < Lead3 THEN 2 ELSE IF b < Lead4 THEN 3 ELSE 4

RECURSIVE CompleteLen(_)
\* the length of the longest prefix of f made of complete sequences
CompleteLen(f) ==
    IF f = <<>> \/ Len(f) < SeqLen(f[1]) THEN 0
    ELSE SeqLen(f[1]) + CompleteLen(SubSeq(f, SeqLen(f[1]) + 1, Len(f)))

RECURSIVE Runes(_)
\* the code points of a stream of complete sequences
Runes(f) ==
    IF f = <<>> THEN <<>>
    ELSE <<DecodeRune(f).c>> \o Runes(SubSeq(f, SeqLen(f[1]) + 1, Len(f)))

RECURSIVE PutAll(_, _)
\* the code points cs delivered to the parser, each once
PutAll(s, cs) == IF cs = <<>> THEN s ELSE PutAll(put(s, Head(cs)), Tail(cs))

\* C11: Write does not count the bytes of an incomplete sequence at the end
\* of its input: the bytes counted so far are exactly the complete sequences
\* of the stream, none is dropped or skipped as invalid, and the parser has
\* received each completed code point exactly once.
C11_PartialNotConsumed ==
    last.op = "Write"
        => /\ last.b = CompleteLen(fed)
           /\ t = PutAll(New(t.cols, t.rows),
                         Runes(SubSeq(fed, 1, CompleteLen(fed))))


WrapNext(s) == HasBit(s.cur.state, cursorWrapNext)

\* C12: from Ground with wrap_next clear and the cursor at column start_x,
\* placing n <= cols - start_x printable code points advances cur.x by
\* min(n, cols-1-start_x), leaves cur.y unchanged, sets wrap_next exactly
\* when n = cols - start_x, and never puts cur.x beyond cols-1.  The start
\* is the state after the first k bytes of the stream, for every k.
C12_AdvanceAndWrapNext ==
    \A k \in 0 .. Len(fed) :
        LET s0 == Write(New(t.cols, t.rows), SubSeq(fed, 1, k)).t
            n == Len(fed) - k
        IN (/\ s0.state = "parse"
            /\ ~WrapNext(s0)
            /\ AllPrintable(SubSeq(fed, k + 1, Len(fed)))
            /\ n <= t.cols - s0.cur.x)
               => /\ t.cur.x = s0.cur.x + min(n, t.cols - 1 - s0.cur.x)
                  /\ t.cur.y = s0.cur.y
                  /\ WrapNext(t) <=> (n = t.cols - s0.cur.x)
                  /\ t.cur.x <= t.cols - 1

C12_Witness ==
    /\ last.op = "Write"
    /\ AllPrintable(fed)
    /\ t.cols = 3
    /\ Len(fed) = 3
    /\ t.cur.x = 2
    /\ WrapNext(t)


\* the last operation was an explicit cursor motion: a motion control code,
\* IND, RI, NEL or cursor restore after ESC, or a Resize to a new size
MotionDone ==
    \/ /\ last.op = "put"
       /\ last.st # "parseEscStr"
       /\ last.a \in {BS, CR, HT, LF, VT, FF}
    \/ /\ last.op = "put"
       /\ last.st = "parseEsc"
       /\ last.a \in {chD, chM, chE, chEight}
    \/ /\ last.op = "Resize"
       /\ last.a >= 1
       /\ last.b >= 1
       /\ last.a # last.cols \/ last.b # last.rows

\* C13: immediately after an explicit cursor-motion operation wrap_next is
\* clear, wherever the cursor was when the operation was issued.
C13_MotionClearsWrapNext == MotionDone => ~WrapNext(t)


AltFlag(s) == HasBit(s.mode, ModeAltScreen)

\* C14: in every reachable state the alt-screen mode flag is set exactly
\* when the active grid is the alternate buffer.
C14_AltFlagMatchesBuffer == AltFlag(t) <=> t.altActive

\* some cell of the grid g holds the code point c
Holds(g, c) == \E y \in 1 .. Len(g) : \E x \in 1 .. Len(g[y]) : g[y][x].c = c

\* after mode 1049 set, text, mode 1049 reset: the primary grid is active
\* with the content and the cursor position it had before
BackOnPrimary(s0) ==
    /\ ~AltFlag(t)
    /\ t.lines = s0.lines
    /\ t.cur.x = s0.cur.x
    /\ t.cur.y = s0.cur.y

\* C15: from the primary screen, mode 1049 set, text, mode 1049 reset leave
\* the primary grid active with its content and cursor position of before,
\* and the text written in between on the alternate grid.
C15_AltKeepsText ==
    last.tag = "back"
        => \A s0 \in last.snap : BackOnPrimary(s0) /\ Holds(t.altLines, chE)

\* C16: two screen swaps in a row leave the active grid, the inactive grid
\* and the alt-screen flag as they were before the first.
C16_SwapTwice ==
    last.tag = "swap2"
        => \A s0 \in last.snap :
              /\ t.lines = s0.lines
              /\ t.altLines = s0.altLines
              /\ AltFlag(t) = AltFlag(s0)
              /\ t.altActive = s0.altActive

C16_Witness ==
    /\ last.tag = "swap2"
    /\ t.lines # t.altLines
    /\ Holds(t.lines, chE)
    /\ AltFlag(t)


\* the last code point fed was the 'c' of ESC c (RIS)
ResetDone == last.op = "put" /\ last.st = "parseEsc" /\ last.a = chLowerC

\* C17: after any sequence of fed code points, reset leaves the cursor, the
\* saved cursor, the mode flags, the scroll region, the tab stops, every cell
\* of both grids and the choice of active grid equal to those of a freshly
\* constructed engine of the same size.
C17_ResetIsFresh ==
    ResetDone
        => LET f == New(t.cols, t.rows)
           IN /\ t.cur = f.cur
              /\ t.curSaved = f.curSaved
              /\ t.mode = f.mode
              /\ t.top = f.top
              /\ t.bottom = f.bottom
              /\ t.tabs = f.tabs
              /\ t.lines = f.lines
              /\ t.altLines = f.altLines
              /\ t.altActive = f.altActive


\* the step is a Resize with the size it has or with a size below 1
ResizeNoopStep ==
    /\ last'.op = "Resize"
    /\ \/ last'.a < 1
       \/ last'.b < 1
       \/ last'.a = t.cols /\ last'.b = t.rows

\* C18: Resize called with the current dimensions, or with cols < 1 or
\* rows < 1, returns false and changes nothing; hence a Resize repeated with
\* the same arguments gives the state of the single Resize.
C18_ResizeNoop ==
    [][(ResizeNoopStep
          => /\ t' = t
             /\ ~ResizeResult(t, last'.a, last'.b))
       /\ (last'.op = "Resize"
          => Resize(t', last'.a, last'.b) = t')]_vars

C18_Witness ==
    /\ last.op = "Resize"
    /\ last.a = last.cols
    /\ last.b = last.rows
    /\ t.cols = last.a
    /\ WrapNext(t)
    /\ Holds(t.lines, chE)

\* the step is a Resize to a different size of at least 1 x 1
ResizeStep ==
    /\ last'.op = "Resize"
    /\ last'.a >= 1
    /\ last'.b >= 1
    /\ last'.a # t.cols \/ last'.b # t.rows

\* new grid g2 against old grid g1: the overlap is kept, slid up by slide
\* rows, and every other cell is a blank with the attribute attr
KeepsOverlap(g1, g2, slide, attr) ==
    \A y \in 1 .. Len(g2) : \A x \in 1 .. Len(g2[y]) :
        IF y <= Len(g1) /\ x <= Len(g1[1])
        THEN g2[y][x] = g1[y + slide][x]
        ELSE g2[y][x] = [attr EXCEPT !.c = SPACE]

\* C19: Resize to different positive dimensions keeps the overlap of both
\* grids, slid up by max(0, cur.y - rows' + 1) rows, makes every new cell a
\* blank with the current attribute, and leaves the cursor on the row that
\* holds the content of the row it was on.
C19_ResizeKeepsOverlap ==
    [][ResizeStep
         => LET slide == max(0, t.cur.y - t'.rows + 1)
            IN /\ KeepsOverlap(t.lines, t'.lines, slide, t.cur.attr)
               /\ KeepsOverlap(t.altLines, t'.altLines, slide, t.cur.attr)
               /\ t'.cur.y = t.cur.y - slide]_vars

C19_Witness ==
    /\ last.op = "Resize"
    /\ last.cols = 1
    /\ last.rows = 2
    /\ last.y = 1
    /\ t.rows = 1
    /\ t.cols = 2
    /\ HasBit(t.cur.attr.mode, attrReverse)
    /\ t.lines[1][1].c = chE
    /\ t.lines[1][2] = [t.cur.attr EXCEPT !.c = SPACE]
    /\ Holds(t.altLines, chE)

FreshAttr == New(1, 1).cur.attr

\* the step just taken is SGR 0 or SGR with an empty parameter list
SgrResetDone ==
    /\ last.op = "setAttr"
    /\ last.a \in {<<>>, <<0>>}

SgrCleared(g) ==
    /\ \A i \in 1 .. Len(SgrBits) : ~HasBit(g.mode, SgrBits[i])
    /\ g.fg = DefaultFG
    /\ g.bg = DefaultBG

\* C20: after SGR 0, or SGR with an empty parameter list, the cursor
\* template has reverse, underline, bold, italic and blink clear and the
\* default foreground and background, whatever was applied before, and
\* equals the template of a fresh engine but for the graphics-charset bit,
\* which stays as it was.
C20_SgrResetKeepsGfx ==
    SgrResetDone
        => /\ SgrCleared(t.cur.attr)
           /\ t.cur.attr =
                [FreshAttr EXCEPT
                   !.mode = IF HasBit(last.b.mode, attrGfx) THEN attrGfx ELSE 0]

C20_Witness ==
    /\ SgrResetDone
    /\ last.a = <<>>
    /\ HasBit(last.b.mode, attrBold)
    /\ HasBit(last.b.mode, attrReverse)
    /\ HasBit(last.b.mode, attrGfx)
    /\ last.b.fg = 2
    /\ last.b.bg = 3
    /\ SgrCleared(t.cur.attr)
    /\ HasBit(t.cur.attr.mode, attrGfx)

\* C20 as stated: after SGR 0, or SGR with an empty parameter list, the
\* cursor template has the five bits clear and the default colours, and
\* equals the template of a fresh engine.
C20_SgrReset ==
    SgrResetDone
        => /\ SgrCleared(t.cur.attr)
           /\ t.cur.attr = FreshAttr

\* C21: after ESC [ 38 ; 5 ; N m or ESC [ 48 ; 5 ; N m with 0 <= N <= 255
\* the cursor template has the foreground / background N, and the glyph
\* written next carries that colour in its cell.
C21_IndexedColour ==
    \A k \in {38, 48}, n \in ColourValues :
        fed = ColourSeq(k, n)
            => /\ IF k = 38 THEN t.cur.attr.fg = n ELSE t.cur.attr.bg = n
               /\ t.lines[1][1].c = chE
               /\ IF k = 38 THEN t.lines[1][1].fg = n ELSE t.lines[1][1].bg = n

\* a reader is between its RLock and its RUnlock
Reading == \E r \in Readers : proc.readers[r] = "reading"

\* C22: a query never reads the state while a put or a Resize is partway
\* through: the caller that is partway holds the exclusive lock, a reader
\* reads under the shared lock, and the two never are held together.
C22_QueriesSeeWholeSteps ==
    /\ proc.mid # "" => mu.w = proc.mid
    /\ Reading => mu.r > 0
    /\ mu.w # "" => mu.r = 0
    /\ Reading => proc.mid = ""

\* every reader reads while the feeder is inside ReadFrom with a code point
\* taken from the buffer, after text and a Resize
C22_Witness ==
    /\ \A r \in Readers : proc.readers[r] = "reading"
    /\ proc.feeder = "readLock"
    /\ proc.lockn = 0
    /\ t.cols = 2
    /\ t.lines[1][1].c = chE

\* the step releases the lock the feeder holds
FeederReleases == mu.w = "feeder" /\ mu'.w = ""

\* C23: during ReadFrom the lock is released only after a whole code point,
\* and only when fewer bytes are buffered than a rune may need or when more
\* than 1024 code points were processed since it was taken, whatever state
\* the parser is in.
C23_ReleasePoints ==
    [][FeederReleases
         => /\ proc'.mid = ""
            /\ \/ proc.buffered < RuneMax
               \/ proc.lockn + 1 > LockBatch]_vars

\* the lock was released after the 1025th code point, an ESC, with a rune's
\* worth still buffered
C23_Witness ==
    /\ last.op = "putEnd"
    /\ last.n = LockBatch
    /\ mu.w = ""
    /\ t.state = "parseEsc"
    /\ proc.buffered >= RuneMax

\* C23 as stated: during ReadFrom the lock is released only after a whole
\* code point with the parser in Ground, or when fewer bytes are buffered
\* than a rune may need; never inside an escape sequence with a rune's worth
\* buffered.
C23_ReleaseInGround ==
    [][FeederReleases
         => /\ proc'.mid = ""
            /\ \/ t'.state = "parse"
               \/ proc.buffered < RuneMax]_vars

\* the step feeds a printable code point in Ground with wrap_next set
WrapStep ==
    /\ last'.op = "put"
    /\ IsPrintable(last'.a)
    /\ t.state = "parse"
    /\ WrapNext(t)

\* the cell g with the wrap attribute
Marked(g) == [g EXCEPT !.mode = SetBit(@, attrWrap)]

\* the cell that holds c written with the template attr
Written(attr, c) == [attr EXCEPT !.c = c]

\* a row of blanks with the attribute attr
BlankRow(cols, attr) == [j \in 1 .. cols |-> [attr EXCEPT !.c = SPACE]]

\* the grid g with rows orig..bottom moved up by m rows (rows counted from
\* 0): the last m of them are blank with the attribute attr
ScrolledUp(g, orig, bottom, m, attr) ==
    [i \in 1 .. Len(g) |->
        IF i - 1 < orig \/ i - 1 > bottom THEN g[i]
        ELSE IF i - 1 <= bottom - m THEN g[i + m]
        ELSE BlankRow(Len(g[i]), attr)]

\* the grid g with rows orig..bottom moved down by m rows: the first m of
\* them are blank with the attribute attr
ScrolledDown(g, orig, bottom, m, attr) ==
    [i \in 1 .. Len(g) |->
        IF i - 1 < orig \/ i - 1 > bottom THEN g[i]
        ELSE IF i - 1 >= orig + m THEN g[i - m]
        ELSE BlankRow(Len(g[i]), attr)]

\* C24: with auto-wrap on and wrap_next set, a printable code point marks
\* the cell under the cursor with the wrap attribute, then a newline to the
\* first column is performed (the region scrolls if the cursor is on its
\* bottom row) and the code point is placed at column 0 of the row reached;
\* with auto-wrap off it overwrites the cell under the cursor, in the last
\* column, and the cursor stays where it is.
C24_WrapNextChar ==
    [][WrapStep
         => LET x == t.cur.x
                y == t.cur.y
                atBottom == y = t.bottom
                y2 == IF atBottom THEN y ELSE min(y + 1, t.rows - 1)
                marked == [t.lines EXCEPT ![y + 1][x + 1] = Marked(@)]
                moved == IF atBottom
                         THEN ScrolledUp(marked, t.top, t.bottom, 1, t.cur.attr)
                         ELSE marked
            IN IF HasBit(t.mode, ModeWrap)
               THEN /\ t'.cur.y = y2
                    /\ t'.lines =
                         [moved EXCEPT ![y2 + 1][1] = Written(t.cur.attr, last'.a)]
               ELSE /\ x = t.cols - 1
                    /\ t'.cur = t.cur
                    /\ t'.lines =
                         [t.lines EXCEPT
                            ![y + 1][x + 1] = Written(t.cur.attr, last'.a)]]_vars

\* the wrap has scrolled a region of two rows: the marked cell is on the
\* row above the cursor
C24_Witness ==
    /\ last.op = "put"
    /\ last.a = chE
    /\ HasBit(t.mode, ModeWrap)
    /\ t.cols = 2 /\ t.rows = 2
    /\ t.top = 0 /\ t.bottom = 1
    /\ t.cur.x = 1 /\ t.cur.y = 1
    /\ t.lines[1][1].c = chH
    /\ t.lines[1][2] = Marked(Written(t.cur.attr, chH))
    /\ t.lines[2][1].c = chE
    /\ t.lines[2][2].c = SPACE

\* the step feeds the code point last'.a to the parser in state st
PutIn(st) == last'.op = "put" /\ t.state = st

\* C25: a control code other than ESC received in the Escape or the CSI
\* state leaves the parser in that state and the CSI accumulator as it was,
\* so that the sequence goes on as if the control code had not been fed.
C25_ControlsInsideEscapes ==
    [][(PutIn("parseEsc") \/ PutIn("parseEscCSI"))
          /\ isControlCode(last'.a) /\ last'.a # ESC
         => /\ t'.state = t.state
            /\ t'.csi = t.csi]_vars

\* C26: from the StrEnd state every code point, control codes included,
\* leads to Ground.
C26_StrEndToGround ==
    [][PutIn("parseEscStrEnd") => t'.state = "parse"]_vars

\* what a string sequence must leave alone
SameScreen(s1, s2) ==
    /\ s2.lines = s1.lines
    /\ s2.altLines = s1.altLines
    /\ s2.cur = s1.cur
    /\ s2.curSaved = s1.curSaved
    /\ s2.mode = s1.mode
    /\ s2.tabs = s1.tabs
    /\ s2.top = s1.top
    /\ s2.bottom = s1.bottom

\* C27: in the STR state a code point other than ESC and BEL is appended to
\* the STR buffer, or ignored once the buffer holds 256, and nothing else
\* changes; BEL leads to Ground; BEL and the backslash of the StrEnd state
\* dispatch the sequence, which leaves grids, cursor, saved cursor, modes,
\* tab stops and scroll region as they were.
C27_StrOnlyBuffers ==
    [][/\ PutIn("parseEscStr") /\ last'.a \notin {ESC, BEL}
          => t' = [t EXCEPT !.str.buf = IF Len(@) < StrLimit
                                        THEN Append(@, last'.a) ELSE @]
       /\ PutIn("parseEscStr") /\ last'.a = BEL
          => t'.state = "parse" /\ SameScreen(t, t')
       /\ PutIn("parseEscStrEnd") /\ last'.a = chBackslash
          => t'.state = "parse" /\ SameScreen(t, t')]_vars

\* a line feed met a full STR buffer on a screen that holds text
C27_Witness ==
    /\ last.op = "put"
    /\ last.a = LF
    /\ last.st = "parseEscStr"
    /\ Len(t.str.buf) = StrLimit
    /\ t.str.typ = chRBracket
    /\ t.lines[1][1].c = chE
    /\ WrapNext(t)

\* a step that performs a newline: LF, VT or FF where control codes are
\* handled, NEL (ESC E), or a printable code point written with wrap_next
\* set and auto-wrap on
NewlineStep ==
    /\ last'.op = "put"
    /\ \/ last'.a \in {LF, VT, FF} /\ t.state \in {"parse", "parseEsc"}
       \/ last'.a = chE /\ t.state = "parseEsc"
       \/ WrapStep /\ HasBit(t.mode, ModeWrap)

\* C28: a newline with the cursor on the bottom row of the scroll region
\* moves the rows of [top, bottom] up by one, leaves the bottom row blank,
\* the rows outside the region as they were and the cursor on its row; on
\* any other row the cursor moves down one row, clamped to the screen, and
\* no cell changes (the newline of auto-wrap is followed by the write of the
\* code point at column 0 of the row reached).
C28_NewlineScrolls ==
    [][NewlineStep
         => LET y == t.cur.y
                wraps == WrapStep
                y2 == IF y = t.bottom THEN y ELSE min(y + 1, t.rows - 1)
                before == IF wraps
                          THEN [t.lines EXCEPT ![y + 1][t.cur.x + 1] = Marked(@)]
                          ELSE t.lines
                after == IF y = t.bottom
                         THEN ScrolledUp(before, t.top, t.bottom, 1, t.cur.attr)
                         ELSE before
            IN /\ t'.cur.y = y2
               /\ t'.lines = IF wraps
                             THEN [after EXCEPT
                                     ![y2 + 1][1] = Written(t.cur.attr, last'.a)]
                             ELSE after]_vars

\* a line feed on the bottom row of the region [0, 1] of a screen of three
\* rows that held a letter on each row: the row of the region that was below
\* is now on top, the bottom row of the region is blank, the row outside the
\* region is as it was
C28_Witness ==
    /\ last.op = "put"
    /\ last.a = LF
    /\ last.st = "parse"
    /\ t.rows = 3
    /\ t.top = 0
    /\ t.bottom = 1
    /\ t.cur.y = 1
    /\ t.lines[1][1].c = chE
    /\ t.lines[2][1].c = SPACE
    /\ t.lines[3][1].c = chE

\* C29: ESC D with the cursor on the bottom row of the scroll region scrolls
\* the region up by one line and ESC M with the cursor on its top row scrolls
\* it down by one line, the cursor staying on its row; on any other row they
\* move the cursor one row down / up and change no cell; the parser returns
\* to Ground in all cases.
C29_IndexScrolls ==
    [][/\ PutIn("parseEsc") /\ last'.a = chD
          => /\ t'.state = "parse"
             /\ IF t.cur.y = t.bottom
                THEN /\ t'.cur.y = t.cur.y
                     /\ t'.lines = ScrolledUp(t.lines, t.top, t.bottom, 1,
                                              t.cur.attr)
                ELSE /\ t'.cur.y = min(t.cur.y + 1, t.rows - 1)
                     /\ t'.lines = t.lines
       /\ PutIn("parseEsc") /\ last'.a = chM
          => /\ t'.state = "parse"
             /\ IF t.cur.y = t.top
                THEN /\ t'.cur.y = t.cur.y
                     /\ t'.lines = ScrolledDown(t.lines, t.top, t.bottom, 1,
                                                t.cur.attr)
                ELSE /\ t'.cur.y = max(t.cur.y - 1, 0)
                     /\ t'.lines = t.lines]_vars

\* C30: scrollUp(orig, n) with orig in the region and n >= 1 moves the rows
\* orig+m .. bottom up by m = min(n, bottom-orig+1), leaves the rows
\* bottom-m+1 .. bottom blank with the cursor attribute and the rows outside
\* [orig, bottom] as they were; scrollDown(orig, n) is the mirror image;
\* deleteLines and insertBlankLines do the same with orig = cur.y and
\* nothing when the cursor is outside the region.
C30_ScrollRows ==
    [][LET orig == last'.a
           m == min(last'.b, t.bottom - orig + 1)
           inside == t.top <= t.cur.y /\ t.cur.y <= t.bottom
       IN /\ last'.op = "scrollUp"
             => t'.lines = ScrolledUp(t.lines, orig, t.bottom, m, t.cur.attr)
          /\ last'.op = "scrollDown"
             => t'.lines = ScrolledDown(t.lines, orig, t.bottom, m, t.cur.attr)
          /\ last'.op = "deleteLines"
             => IF inside
                THEN t'.lines = ScrolledUp(t.lines, t.cur.y, t.bottom, m,
                                           t.cur.attr)
                ELSE t' = t
          /\ last'.op = "insertBlankLines"
             => IF inside
                THEN t'.lines = ScrolledDown(t.lines, t.cur.y, t.bottom, m,
                                             t.cur.attr)
                ELSE t' = t]_vars

\* scrollUp(1, 2) on the region [0, 2] of a screen of three rows that held a
\* letter on each row: the count is cut to the two rows from 1 to the bottom,
\* both are blank and the row above them is as it was
C30_Witness ==
    /\ last.op = "scrollUp"
    /\ last.a = 1
    /\ last.b = 2
    /\ t.rows = 3
    /\ t.top = 0
    /\ t.bottom = 2
    /\ t.lines[1][1].c = chE
    /\ t.lines[2][1].c = SPACE
    /\ t.lines[3][1].c = SPACE

\* the mouse-report bits set in the mode word m
MouseBits(m) == {i \in 1 .. Len(ModeMouseMask) : HasBit(m, ModeMouseMask[i])}

\* C31: at most one of the four mouse-report bits is set in every reachable
\* state; setting one of the private modes 9, 1000, 1002, 1003 leaves its
\* bit as the only one set and resetting it leaves none set; no other
\* operation sets a mouse-report bit.
C31_OneMouseMode ==
    /\ [](Cardinality(MouseBits(t.mode)) <= 1)
    /\ [][IF last'.op = "setMode" /\ last'.tag = "mouse"
          THEN \A i \in 1 .. Len(ModeMouseMask) :
                  HasBit(t'.mode, ModeMouseMask[i])
                     <=> (last'.a[2] /\ ModeMouseMask[i] = MouseBit(last'.a[3]))
          ELSE MouseBits(t'.mode) \subseteq MouseBits(t.mode)]_vars

\* mode 1000 set while X10 reporting was on: button reporting alone is on
C31_Witness ==
    /\ last.op = "setMode"
    /\ last.a = <<TRUE, TRUE, 1000>>
    /\ \E s \in last.snap : HasBit(s.mode, ModeMouseX10)
    /\ HasBit(t.mode, ModeMouseButton)
    /\ ~HasBit(t.mode, ModeMouseX10)

\* C32: once the dirty flags have been cleared, every row of the active grid
\* that differs from its content at clearing time (in code point, attribute
\* bits or colours) has its flag set, after any further fed code points.
C32_ChangedRowsDirty ==
    last.seen # <<>> /\ ~t.panic
       => \A y \in 1 .. Len(t.lines) :
             t.lines[y] # last.seen[y] => t.dirty[y]

RECURSIVE LastStop(_, _)
\* the last column below i + 1 that is a tab stop, column 0 if there is none
LastStop(tabs, i) ==
    IF i > 0 /\ ~tabs[i + 1] THEN LastStop(tabs, i - 1) ELSE i

\* C33: a resize to more columns keeps the tab stops of the old columns and
\* adds stops at every 8th column after the last old stop, up to the last
\* new column; a resize to fewer columns keeps the stops of the columns that
\* remain.
C33_TabStopsExtended ==
    [][last'.op = "Resize" /\ t'.cols # t.cols
         => /\ \A x \in 0 .. min(t.cols, t'.cols) - 1 :
                  t'.tabs[x + 1] = t.tabs[x + 1]
            /\ t'.cols > t.cols
                 => LET from == LastStop(t.tabs, t.cols - 1)
                    IN \A x \in t.cols .. t'.cols - 1 :
                          t'.tabs[x + 1] <=> (x - from) % tabspaces = 0]_vars

\* C34: ESC # 8 fills every cell of the active grid with 'E' carrying the
\* current attribute, whatever the current attribute is, leaves the cursor
\* where it is and returns the parser to Ground; any other code point after
\* ESC # changes no cell and returns the parser to Ground.
C34_AlignmentTest ==
    [][PutIn("parseEscTest")
         => /\ t'.state = "parse"
            /\ IF last'.a = chEight
               THEN /\ \A y \in 1 .. t.rows : \A x \in 1 .. t.cols :
                          t'.lines[y][x] = Written(t.cur.attr, chE)
                    /\ t'.cur.x = t.cur.x
                    /\ t'.cur.y = t.cur.y
               ELSE t'.lines = t.lines]_vars

\* C35: in Ground a control code is passed to the control-code handler and
\* nothing else: no cell takes it as its code point, graphics charset or
\* not, and the parser stays in Ground unless the code is ESC.
C35_ControlsNotPlaced ==
    [][PutIn("parse") /\ isControlCode(last'.a)
         => /\ t' = handleControlCodes(t, last'.a)
            /\ last'.a # ESC => t'.state = "parse"
            /\ \A y \in 1 .. t.rows : \A x \in 1 .. t.cols :
                  t'.lines[y][x].c = last'.a
                     => \E y0 \in 1 .. t.rows : \E x0 \in 1 .. t.cols :
                           t.lines[y0][x0].c = last'.a]_vars

RECURSIVE PlainPrefix(_)
\* the values of the fields before the first one that is no plain unsigned
\* decimal
PlainPrefix(fs) ==
    IF fs = <<>> \/ ~Head(fs).fits THEN <<>>
    ELSE <<Head(fs).val>> \o PlainPrefix(Tail(fs))

\* C36: every parameter csiEscape.parse produces is a non-negative integer;
\* a field that is no plain unsigned decimal ("-5", "+5", an empty field, a
\* field with an intermediate byte) ends the parameters, those before it are
\* kept, and the final byte is recorded.
C36_UnsignedParams ==
    last.op = "csiParse" /\ ~t.panic
       => /\ \A i \in 1 .. Len(t.csi.args) : t.csi.args[i] >= 0
          /\ t.csi.args = PlainPrefix(last.b)
          /\ t.csi.mode = last.a[Len(last.a)]

\* C37: no fed code point and no grid operation changes a cell of the grid
\* that is not active: between two swaps the inactive grid stays as it is.
C37_InactiveGridKept ==
    [][last'.op # "swapScreen" => t'.altLines = t.altLines]_vars

\* a reset on the alternate screen: the active grid is blank, the primary
\* grid, inactive, still holds its text
C37_Witness ==
    /\ last.op = "put"
    /\ last.a = chLowerC
    /\ last.st = "parseEsc"
    /\ t.altActive
    /\ t.lines[1][1].c = SPACE
    /\ t.altLines[1][1].c = chE

\* C38: between two iterations of ReadFrom the feeder holds the exclusive
\* lock exactly when its count of code points since the lock was taken is
\* above zero; the count stays within 1025; the lock is not held while
\* ReadFrom waits for its source (nothing buffered), nor after it returned.
C38_FeederLock ==
    /\ proc.feeder \in {"read", "idle"}
          => (mu.w = "feeder" <=> proc.lockn > 0)
    /\ proc.lockn <= LockBatch + 1
    /\ proc.feeder = "read" /\ proc.buffered = 0 => mu.w # "feeder"
    /\ proc.feeder = "idle" => mu.w # "feeder"

\* C39: insertBlanks(0), deleteChars(0), scrollUp(orig, 0) and
\* scrollDown(orig, 0) leave every cell of the grid unchanged.
C39_ZeroCountNoop ==
    [][/\ last'.op \in {"insertBlanks", "deleteChars", "scrollUp", "scrollDown"}
       /\ last'.b = 0
       => t'.lines = t.lines]_vars

\* C40: setting or resetting private mode 47, 1047 or 1049 swaps the
\* screens only when the screen asked for is not the active one: a reset
\* while the primary screen is active leaves it active with its content and
\* the alt-screen flag clear; a set while the alternate screen is active
\* leaves the alternate screen active.
C40_SwapOnlyOnChange ==
    [][last'.op = "setMode" /\ last'.a[1] /\ last'.a[3] \in {47, 1047, 1049}
         => /\ ~last'.a[2] /\ ~AltFlag(t)
                 => /\ ~AltFlag(t')
                    /\ t'.altActive = t.altActive
                    /\ t'.lines = t.lines
            /\ last'.a[2] /\ AltFlag(t)
                 => /\ AltFlag(t')
                    /\ t'.altActive = t.altActive]_vars


====
